---- MODULE Spec2Model ----
(***************************************************************************)
(* Job segment orchestration and status aggregation of the client-audits   *)
(* middle layer.  The repository holds several generations of the same     *)
(* worker; the generations modelled here are                               *)
(*   - the jobHelpers generation: jobHelpers.js, demographics.js           *)
(*     (unnamed/part_000) and organic.js                    (Spec)         *)
(*   - the aggregators alone, applied to arbitrary Job rows:               *)
(*     jobHelpers.updateOverallStatus, status.recomputeAndUpdateMainStatus *)
(*     and worker.maybeMarkJobCompleted                     (SpecAgg)      *)
(*   - the second generation of worker.js: processJobDemographics with     *)
(*     safeUpdateJobDemographicsStatus                      (SpecLegacy)   *)
(*   - the third generation of worker.js: handleJobMessage and             *)
(*     processDemographicsStage                             (SpecStage)    *)
(*   - the batch worker of index.js (unnamed/part_002):                    *)
(*     runDemographics                                      (SpecBatch)    *)
(*   - the status.js generation: worker.js (unnamed/part_008),             *)
(*     demographics.js (unnamed/part_001), organicSearch.js                *)
(*     (unnamed/part_005)                    (SpecSegment, SpecSegmentFair)*)
(*   - the demographics stage of the jobHelpers generation with no         *)
(*     statement rejecting                   (SpecNoFault, SpecNoFaultFair)*)
(*   - the aggregators alone with a rejecting store         (SpecAggFault) *)
(*   - organicSearch.js (unnamed/part_006) with status.js and the          *)
(*     deletion of a job                                    (SpecResult)   *)
(*   - organicSearch.js (unnamed/part_005): trigger and callback of the    *)
(*     organic-search segment                               (SpecPhases)   *)
(*   - the callback of organic.js for two jobs of the same content         *)
(*                                                          (SpecContext)  *)
(*   - the parse step of processDemographicsStage on arbitrary reference   *)
(*     values                                               (SpecCoerce)   *)
(* Every BigQuery statement (one await) is one atomic step.                *)
(***************************************************************************)
EXTENDS Integers, Sequences, FiniteSets, TLC

VARIABLES
  jobs,      \* Job Store: client_audits_jobs, jobId -> row or NoRow
  demoRows,  \* Segment Result Store 1_demographicJobs, jobId -> row or NoRow
  orgRows,   \* Segment Result Store 7_organicSearch_Jobs, jobId -> row or NoRow
  run,       \* the in-flight handler invocations, one record of locals each
  env        \* bookkeeping of the environment (deliveries made, edits made)

vars == <<jobs, demoRows, orgRows, run, env>>

-----------------------------------------------------------------------------
(* Bounds of the model                                                     *)

NumProcs == 2        \* handler invocations that may be in flight together
MaxDeliveries == 2   \* messages and callbacks delivered in one behaviour
MaxAggRuns == 2      \* consecutive aggregator runs without a segment change
MaxSegChanges == 1   \* segment-status edits between aggregator runs
MaxClock == 2        \* instants the clock passes through after the first

Procs == 1..NumProcs

-----------------------------------------------------------------------------
(* Values                                                                  *)

NULL == "null"       \* SQL NULL / JS null, undefined
NoRow == [exists |-> FALSE]   \* the SELECT returned no row

SegStatus == {"queued", "pending", "partial", "completed", "failed", "no_data"}
StatusOrNull == SegStatus \cup {NULL}
OverallInit == {"queued", "pending", "completed", "failed", NULL}

JobIds == {"j1", "j2"}
\* the statuses that end an attempt
Terminal == {"completed", "partial", "failed", "no_data"}

\* the three status columns read by every aggregator, in the order of the SELECT
Segs(row) == <<row.demo, row.org, row.paid>>

Every(s, P(_)) == \A i \in 1..Len(s) : P(s[i])
Some(s, P(_)) == \E i \in 1..Len(s) : P(s[i])

IsQueued(s) == s = "queued"
IsCompleted(s) == s = "completed"
IsFailed(s) == s = "failed"
IsPending(s) == s = "pending"
IsPartial(s) == s = "partial"
NotNull(s) == s # NULL

-----------------------------------------------------------------------------
(* The reducers                                                            *)

\* job.s_demo || 'queued'
OrQueued(s) == IF s = NULL THEN "queued" ELSE s

HelpersSegments(segs) == [i \in 1..Len(segs) |-> OrQueued(segs[i])]

\* a variant that tests anyPending before anyFailed
HelpersReduceNoFailedFirst(segs) ==
  LET segments == HelpersSegments(segs) IN
  IF Every(segments, IsQueued) THEN "queued"
  ELSE IF Some(segments, IsPending) THEN "pending"
  ELSE IF Some(segments, IsFailed) THEN "failed"
  ELSE IF Every(segments, IsCompleted) THEN "completed"
  ELSE "pending"

\* a variant with a rule "any segment partial -> partial" before the completed rule
HelpersReducePartialRule(segs) ==
  LET segments == HelpersSegments(segs) IN
  IF Every(segments, IsQueued) THEN "queued"
  ELSE IF Some(segments, IsFailed) THEN "failed"
  ELSE IF Some(segments, IsPending) THEN "pending"
  ELSE IF Some(segments, IsPartial) THEN "partial"
  ELSE IF Every(segments, IsCompleted) THEN "completed"
  ELSE "pending"

\* jobHelpers.updateOverallStatus, the computation of newStatus
HelpersReduce(segs) ==
  LET segments == HelpersSegments(segs) IN
  IF Every(segments, IsQueued) THEN "queued"
  ELSE IF Some(segments, IsFailed) THEN "failed"
  ELSE IF Some(segments, IsPending) THEN "pending"
  ELSE IF Every(segments, IsCompleted) THEN "completed"
  ELSE "pending"

\* status.recomputeAndUpdateMainStatus: [row.demo, row.organic, row.paid].filter(s => !!s)
StatusPresent(segs) == SelectSeq(segs, NotNull)

\* a variant whose fallback is 'queued'
StatusReduceElseQueued(segs) ==
  LET segmentStatuses == StatusPresent(segs) IN
  IF Every(segmentStatuses, IsQueued) THEN "queued"
  ELSE IF Some(segmentStatuses, IsFailed) THEN "failed"
  ELSE IF Every(segmentStatuses, IsCompleted) THEN "completed"
  ELSE IF Some(segmentStatuses, IsPending) THEN "pending"
  ELSE "queued"

\* status.recomputeAndUpdateMainStatus, the computation of newStatus
\* (only reached with at least one status present)
StatusReduce(segs) ==
  LET segmentStatuses == StatusPresent(segs) IN
  IF Every(segmentStatuses, IsQueued) THEN "queued"
  ELSE IF Some(segmentStatuses, IsFailed) THEN "failed"
  ELSE IF Every(segmentStatuses, IsCompleted) THEN "completed"
  ELSE IF Some(segmentStatuses, IsPending) THEN "pending"
  ELSE "pending"

\* a variant that asks only the segments already started to be completed
WorkerAllCompletedSkipQueued(segs) ==
  /\ Some(segs, IsCompleted)
  /\ \A i \in 1..Len(segs) : OrQueued(segs[i]) \in {"completed", "queued"}

\* worker.maybeMarkJobCompleted (first generation): the condition of its UPDATE
WorkerAllCompleted(segs) ==
  /\ OrQueued(segs[1]) = "completed"
  /\ OrQueued(segs[2]) = "completed"
  /\ OrQueued(segs[3]) = "completed"

-----------------------------------------------------------------------------
(* Handler invocations                                                     *)

IdleRun ==
  [pc |-> "idle",        \* the statement the invocation is about to execute
   job |-> "j1",         \* the jobId argument
   ret |-> "idle",       \* where the aggregator call returns to
   newStatus |-> NULL,   \* the aggregator's local newStatus
   impl |-> "helpers",   \* which aggregator a bare aggregator run uses
   wrote |-> FALSE,      \* whether the aggregator call in progress issued its UPDATE
   start |-> NULL,       \* the stored overall status when that call began
   n |-> 0,              \* aggregator calls finished since the last segment edit
   kind |-> "none",      \* the handler invoked: demo, org, cb
   snap |-> NoRow,       \* const job = await loadJob(jobId): the fields used later
   ref |-> NoRow,        \* const d = demoRows[0], the reference record read
   items |-> <<>>,       \* the callback items still to be processed
   body |-> <<>>,        \* the payload the callback was invoked with
   posted |-> NULL,      \* how the await axios.post(...) of this invocation ended
   skipped |-> 0,        \* callback items skipped with a warning for want of a jobId
   at |-> NoRow]         \* the stores as the invocation found them

Idle(p) == run[p].pc = "idle"

\* the environment at start: nothing delivered, the clock at its first instant; for
\* each job the stages run for it and the writes issued to the stores on its behalf
\* are recorded where a behaviour asks for it
Env0 ==
  [deliveries |-> 0, changes |-> 0, now |-> 0, faults |-> 0, tracing |-> FALSE,
   runs |-> [j \in JobIds |-> <<>>], log |-> [j \in JobIds |-> <<>>]]

\* the environment after the write w for job j
Traced(j, w) == IF env.tracing THEN [env EXCEPT !.log[j] = Append(@, w)] ELSE env

\* the aggregator call returns to its caller
Returned(r) == [r EXCEPT !.pc = r.ret, !.newStatus = NULL]

SetStatus(j, s) == [jobs EXCEPT ![j] = IF ~@.exists THEN @ ELSE [@ EXCEPT !.status = s]]

-----------------------------------------------------------------------------
(* jobHelpers.updateOverallStatus                                          *)

\* the SELECT, the computation of newStatus and the test newStatus !== job.status
UpdateOverallRead(p) ==
  /\ run[p].pc = "agg_read"
  /\ LET row == jobs[run[p].job] IN
       IF ~row.exists
         THEN run' = [run EXCEPT ![p] = Returned(@)]
         ELSE LET ns == HelpersReduce(Segs(row)) IN
              IF ns # row.status
                THEN run' = [run EXCEPT ![p].pc = "agg_write", ![p].newStatus = ns]
                ELSE run' = [run EXCEPT ![p] = Returned(@)]
  /\ UNCHANGED <<jobs, demoRows, orgRows, env>>

\* UPDATE ... SET status = @newStatus WHERE jobId = @jobId
UpdateOverallWrite(p) ==
  /\ run[p].pc = "agg_write"
  /\ jobs' = SetStatus(run[p].job, run[p].newStatus)
  /\ run' = [run EXCEPT ![p] = Returned([@ EXCEPT !.wrote = TRUE])]
  /\ UNCHANGED <<demoRows, orgRows, env>>

-----------------------------------------------------------------------------
(* status.recomputeAndUpdateMainStatus                                     *)

\* the SELECT, the two early returns and the computation of newStatus
RecomputeRead(p) ==
  /\ run[p].pc = "st_read"
  /\ LET row == jobs[run[p].job] IN
       IF ~row.exists \/ Len(StatusPresent(Segs(row))) = 0
         THEN run' = [run EXCEPT ![p] = Returned(@)]
         ELSE run' = [run EXCEPT ![p].pc = "st_write",
                                 ![p].newStatus = StatusReduce(Segs(row))]
  /\ UNCHANGED <<jobs, demoRows, orgRows, env>>

\* UPDATE ... SET status = @status, updatedAt = CURRENT_TIMESTAMP(): unconditional
RecomputeWrite(p) ==
  /\ run[p].pc = "st_write"
  /\ jobs' = SetStatus(run[p].job, run[p].newStatus)
  /\ run' = [run EXCEPT ![p] = Returned([@ EXCEPT !.wrote = TRUE])]
  /\ env' = Traced(run[p].job, <<"status", run[p].newStatus>>)
  /\ UNCHANGED <<demoRows, orgRows>>

-----------------------------------------------------------------------------
(* worker.maybeMarkJobCompleted (first generation of worker.js)            *)

MaybeMarkRead(p) ==
  /\ run[p].pc = "mm_read"
  /\ LET row == jobs[run[p].job] IN
       IF row.exists /\ WorkerAllCompleted(Segs(row))
         THEN run' = [run EXCEPT ![p].pc = "mm_write", ![p].newStatus = "completed"]
         ELSE run' = [run EXCEPT ![p] = Returned(@)]
  /\ UNCHANGED <<jobs, demoRows, orgRows, env>>

\* UPDATE ... SET status = 'completed' WHERE jobId = @jobId
MaybeMarkWrite(p) ==
  /\ run[p].pc = "mm_write"
  /\ jobs' = SetStatus(run[p].job, "completed")
  /\ run' = [run EXCEPT ![p] = Returned([@ EXCEPT !.wrote = TRUE])]
  /\ UNCHANGED <<demoRows, orgRows, env>>

-----------------------------------------------------------------------------
(* SpecAgg: one aggregator applied, repeatedly, to an arbitrary Job row    *)

AggEntry(impl) ==
  CASE impl = "helpers" -> "agg_read"
    [] impl = "status" -> "st_read"
    [] impl = "worker" -> "mm_read"

JobRows ==
  [exists : {TRUE}, status : OverallInit, demo : StatusOrNull, org : StatusOrNull, paid : StatusOrNull,
   location : {"Springfield"}]

InitAgg ==
  /\ \E r \in JobRows : jobs = [j \in JobIds |-> IF j = "j1" THEN r ELSE NoRow]
  /\ demoRows = [j \in JobIds |-> NoRow]
  /\ orgRows = [j \in JobIds |-> NoRow]
  /\ \E i \in {"helpers", "status", "worker"}, j \in JobIds :
       run = [p \in Procs |-> [IdleRun EXCEPT !.impl = i, !.job = j]]
  /\ env = Env0

\* a caller invokes the aggregator
AggCall(p) ==
  /\ p = 1
  /\ Idle(p)
  /\ run[p].n < MaxAggRuns
  /\ run' = [run EXCEPT ![p].pc = AggEntry(run[p].impl), ![p].ret = "agg_done",
                        ![p].wrote = FALSE, ![p].newStatus = NULL,
                        ![p].start = IF ~jobs[run[p].job].exists THEN NULL
                                     ELSE jobs[run[p].job].status]
  /\ UNCHANGED <<jobs, demoRows, orgRows, env>>

\* the aggregator has returned to its caller
AggReturn(p) ==
  /\ run[p].pc = "agg_done"
  /\ run' = [run EXCEPT ![p].pc = "idle", ![p].n = run[p].n + 1]
  /\ UNCHANGED <<jobs, demoRows, orgRows, env>>

\* a segment processor edits one status column while no aggregator runs
SegChange ==
  /\ \A p \in Procs : Idle(p)
  /\ env.changes < MaxSegChanges
  /\ jobs["j1"].exists
  /\ \E c \in {"demo", "org", "paid"}, s \in SegStatus :
       /\ jobs["j1"][c] # s
       /\ jobs' = [jobs EXCEPT !["j1"][c] = s]
  /\ run' = [p \in Procs |-> [run[p] EXCEPT !.n = 0]]
  /\ env' = [env EXCEPT !.changes = @ + 1]
  /\ UNCHANGED <<demoRows, orgRows>>

NextAgg ==
  \/ \E p \in Procs : AggCall(p)
  \/ \E p \in Procs : UpdateOverallRead(p)
  \/ \E p \in Procs : UpdateOverallWrite(p)
  \/ \E p \in Procs : RecomputeRead(p)
  \/ \E p \in Procs : RecomputeWrite(p)
  \/ \E p \in Procs : MaybeMarkRead(p)
  \/ \E p \in Procs : MaybeMarkWrite(p)
  \/ \E p \in Procs : AggReturn(p)
  \/ SegChange

SpecAgg == InitAgg /\ [][NextAgg]_vars

\* the query an aggregator awaits rejects: updateOverallStatus,
\* recomputeAndUpdateMainStatus and maybeMarkJobCompleted await their SELECT and
\* their UPDATE in no try block, so the rejection reaches the caller and nothing
\* is written
AggRejects(p) ==
  /\ run[p].pc \in {"agg_read", "agg_write", "st_read", "st_write", "mm_read", "mm_write"}
  /\ run' = [run EXCEPT ![p].pc = "raised"]
  /\ UNCHANGED <<jobs, demoRows, orgRows, env>>

\* the caller has the exception
AggRaised(p) ==
  /\ run[p].pc = "raised"
  /\ run' = [run EXCEPT ![p].pc = "idle", ![p].n = run[p].n + 1, ![p].newStatus = NULL]
  /\ UNCHANGED <<jobs, demoRows, orgRows, env>>

NextAggFault ==
  \/ NextAgg
  \/ \E p \in Procs : AggRejects(p)
  \/ \E p \in Procs : AggRaised(p)

SpecAggFault == InitAgg /\ [][NextAggFault]_vars

\* C22: when the Aggregator's read or write of the Job Store fails, the
\* Aggregator does not raise to its caller, and the stored overall status is the
\* one stored when it was called.
C22_AggregatorNeverRaises ==
  \A p \in Procs :
    /\ run[p].pc # "raised"
    /\ (run[p].pc = "raised" /\ jobs[run[p].job].exists) => jobs[run[p].job].status = run[p].start

-----------------------------------------------------------------------------
(* Properties of the Aggregator, checked under SpecAgg                     *)

\* an aggregator run of one of the given implementations has just returned
\* for a job that exists
Finished(impls) ==
  /\ run[1].pc = "agg_done"
  /\ run[1].impl \in impls
  /\ jobs[run[1].job].exists

AggRow == jobs[run[1].job]

\* C3: whenever at least one segment status is failed, the Aggregator
\* (jobHelpers.updateOverallStatus, status.recomputeAndUpdateMainStatus) leaves
\* the overall status failed, whatever the other segments are.
C3_AnyFailedYieldsFailed ==
  Finished({"helpers", "status"}) /\ Some(Segs(AggRow), IsFailed)
    => AggRow.status = "failed"

C3_Witness ==
  /\ Finished({"helpers", "status"})
  /\ Segs(AggRow) = <<"completed", "failed", "pending">>
  /\ run[1].start = "pending"
  /\ run[1].wrote
  /\ AggRow.status = "failed"

\* no segment failed, pending, queued or missing, and at least one partial
PartialCase(segs) ==
  /\ \A i \in 1..Len(segs) : segs[i] \in {"partial", "completed", "no_data"}
  /\ Some(segs, IsPartial)

PendingCase(segs) ==
  /\ ~Some(segs, IsFailed)
  /\ \E i \in 1..Len(segs) : segs[i] \in {"pending", "queued"}
  /\ ~Every(HelpersSegments(segs), IsQueued)

\* C5: with no failed segment and at least one pending or queued segment (not
\* all queued), the Aggregator leaves the overall status pending, also when
\* other segments are partial or completed.
C5_PendingOrQueuedYieldsPending ==
  Finished({"helpers", "status"}) /\ PendingCase(Segs(AggRow))
    => AggRow.status = "pending"

C5_Witness ==
  /\ Finished({"helpers", "status"})
  /\ Segs(AggRow) = <<"queued", "partial", "completed">>
  /\ run[1].start = "completed"
  /\ run[1].wrote
  /\ AggRow.status = "pending"

\* after a run of the Aggregator over segments that are all completed the
\* stored overall status is completed
C6_AllCompletedStored ==
  Finished({"helpers", "worker"}) /\ Every(Segs(AggRow), IsCompleted)
    => AggRow.status = "completed"

\* the Aggregator turns the overall status into completed only for a job whose
\* three segment statuses are completed
C6_CompletedOnlyWhenAll ==
  \A j \in JobIds :
    /\ run[1].impl \in {"helpers", "worker"}
    /\ jobs[j].exists
    /\ jobs[j].status # "completed"
    /\ jobs'[j].status = "completed"
    => Every(Segs(jobs'[j]), IsCompleted)

C7_RerunWritesNothing ==
  Finished({"helpers", "status"}) /\ run[1].n >= 1
    => ~run[1].wrote /\ AggRow.status = run[1].start

\* C8: the Aggregator's result for a job with a missing segment status is its
\* result for the same job with that status set to queued.
\* status.recomputeAndUpdateMainStatus drops missing statuses instead.
C8_MissingTreatedAsQueued ==
  Finished({"helpers", "status"}) /\ (run[1].wrote \/ run[1].impl = "helpers")
    => AggRow.status = IF run[1].impl = "helpers"
                         THEN HelpersReduce(HelpersSegments(Segs(AggRow)))
                         ELSE StatusReduce(HelpersSegments(Segs(AggRow)))

-----------------------------------------------------------------------------
(* Reference Data Source: Client_audits_data.1_demographics                *)

DemoFields ==
  {"population_no", "median_age", "households_no", "median_income_households",
   "median_income_families", "male_percentage", "female_percentage"}

Locations == {"Springfield", "Shelbyville", "Ogdenville", "Nowhere"}

\* one record per location: Springfield has every metric, Shelbyville lacks one,
\* Ogdenville has a row of NULLs, Nowhere has no row
RefTable(location) ==
  CASE location = "Springfield" ->
         [exists |-> TRUE, fields |-> [f \in DemoFields |-> "num"]]
    [] location = "Shelbyville" ->
         [exists |-> TRUE,
          fields |-> [f \in DemoFields |-> IF f = "median_age" THEN NULL ELSE "num"]]
    [] location = "Ogdenville" ->
         [exists |-> TRUE, fields |-> [f \in DemoFields |-> NULL]]
    [] OTHER -> NoRow

\* the values a column of the reference row may hold, as JavaScript values: null,
\* undefined (the column is absent), a number, NaN, a string of characters
JsNull == [type |-> "null"]
JsUndefined == [type |-> "undefined"]
JsNaN == [type |-> "nan"]
JsNumber(n) == [type |-> "number", n |-> n]
JsString(chars) == [type |-> "string", chars |-> chars]

MaxChars == 2
Alphabet == {"0", "4", " ", ",", "+", "a"}
DecimalDigits == {"0", "4"}
DigitValue(c) == IF c = "4" THEN 4 ELSE 0

\* StringToNumber strips leading and trailing white space
RECURSIVE TrimStart(_)
TrimStart(chars) ==
  IF chars # <<>> /\ Head(chars) = " " THEN TrimStart(Tail(chars)) ELSE chars

RECURSIVE TrimEnd(_)
TrimEnd(chars) ==
  IF chars # <<>> /\ chars[Len(chars)] = " "
    THEN TrimEnd(SubSeq(chars, 1, Len(chars) - 1))
    ELSE chars

\* the mathematical value of a sequence of decimal digits
RECURSIVE DecimalValue(_)
DecimalValue(chars) ==
  IF chars = <<>> THEN 0
  ELSE 10 * DecimalValue(SubSeq(chars, 1, Len(chars) - 1)) + DigitValue(chars[Len(chars)])

\* Number(string): the empty or white-space-only string is +0, an optionally
\* signed decimal literal is its value, anything else is NaN
StringToNumber(chars) ==
  LET trimmed == TrimEnd(TrimStart(chars))
      literal == IF trimmed # <<>> /\ Head(trimmed) = "+" THEN Tail(trimmed) ELSE trimmed
  IN IF trimmed = <<>> THEN JsNumber(0)
     ELSE IF literal # <<>> /\ \A i \in 1..Len(literal) : literal[i] \in DecimalDigits
       THEN JsNumber(DecimalValue(literal))
       ELSE JsNaN

\* Number(value)
Number(value) ==
  CASE value.type = "null" -> JsNumber(0)
    [] value.type = "undefined" -> JsNaN
    [] value.type = "string" -> StringToNumber(value.chars)
    [] OTHER -> value

\* worker.toNumberOrNull: if (value === null || value === undefined || value === '')
\* return null; const n = Number(value); if (Number.isNaN(n)) return null; return n
WorkerToNumberOrNull(value) ==
  IF value.type \in {"null", "undefined"} \/ value = JsString(<<>>) THEN JsNull
  ELSE IF Number(value) = JsNaN THEN JsNull
  ELSE Number(value)

\* the JavaScript value a reference value of RefTable stands for
Js(value) ==
  CASE value = NULL -> JsNull
    [] value = "" -> JsString(<<>>)
    [] OTHER -> JsNumber(4)

\* worker.toNumberOrNull on the values the reference table holds here
ToNumberOrNull(value) == IF WorkerToNumberOrNull(Js(value)) = JsNull THEN NULL ELSE value

\* worker.processDemographicsStage: allNull, allNonNull and newDemoStatus
Classify(fields) ==
  LET parsed == [f \in DemoFields |-> ToNumberOrNull(fields[f])] IN
  IF \A f \in DemoFields : parsed[f] = NULL THEN "failed"
  ELSE IF \A f \in DemoFields : parsed[f] # NULL THEN "completed"
  ELSE "partial"

-----------------------------------------------------------------------------
(* jobHelpers.loadJob, jobHelpers.markSegmentStatus                        *)

\* loadJob: of the row it returns the handlers use the context fields only
Loaded(row) ==
  IF row.exists
    THEN [exists |-> TRUE, location |-> row.location, businessName |-> row.businessName,
          website |-> row.website, createdAt |-> row.createdAt]
    ELSE NoRow

\* a variant of the UPDATE that sets the status of both processed segments
MarkSegmentStatusBothColumns(j, col, s) ==
  [jobs EXCEPT ![j] = IF ~@.exists THEN @ ELSE [@ EXCEPT !.demo = s, !.org = s]]

\* UPDATE ... SET `statusColumn` = @newStatus WHERE jobId = @jobId
MarkSegmentStatus(j, col, s) ==
  [jobs EXCEPT ![j] = IF ~@.exists THEN @ ELSE [@ EXCEPT ![col] = s]]

\* await markSegmentStatus(...); the await updateOverallStatus(jobId) that follows
\* starts at agg_read and returns to ret.  In the callback loop these are the last
\* statements of an iteration: the item is done with
MarkThenAggregate(p, col, s, ret) ==
  /\ jobs' = MarkSegmentStatus(run[p].job, col, s)
  /\ run' = [run EXCEPT ![p].pc = "agg_read", ![p].ret = ret,
                        ![p].items = IF @ = <<>> THEN @ ELSE Tail(@)]
  /\ UNCHANGED <<demoRows, orgRows, env>>

-----------------------------------------------------------------------------
(* demographics.js (unnamed/part_000): handleDemographicsStage             *)

\* a variant of the load that records a failed result row for a job it did not find
DemoLoadRecordsMissingJob(p) ==
  /\ run[p].pc = "d_load"
  /\ run' = [run EXCEPT ![p].pc = IF jobs[run[p].job].exists THEN "d_pending" ELSE "done",
                        ![p].snap = Loaded(jobs[run[p].job])]
  /\ demoRows' = IF jobs[run[p].job].exists THEN demoRows
                 ELSE [demoRows EXCEPT ![run[p].job] =
                         [exists |-> TRUE, status |-> "failed", fields |-> [f \in DemoFields |-> NULL]]]
  /\ UNCHANGED <<jobs, orgRows, env>>

\* const job = await loadJob(jobId); if (!job) return
DemoLoad(p) ==
  /\ run[p].pc = "d_load"
  /\ run' = [run EXCEPT ![p].pc = IF jobs[run[p].job].exists THEN "d_pending" ELSE "done",
                        ![p].snap = Loaded(jobs[run[p].job])]
  /\ UNCHANGED <<jobs, demoRows, orgRows, env>>

\* STEP 2: mark segment pending + bump overall status
DemoPending(p) ==
  /\ run[p].pc = "d_pending"
  /\ MarkThenAggregate(p, "demo", "pending", "d_lookup")

\* STEP 3: load demographics source row
DemoLookupReturns(p) ==
  /\ run[p].pc = "d_lookup"
  /\ LET d == RefTable(run[p].snap.location) IN
       run' = [run EXCEPT ![p].pc = IF d.exists THEN "d_merge" ELSE "d_failed",
                          ![p].ref = d]
  /\ UNCHANGED <<jobs, demoRows, orgRows, env>>

\* the query of STEP 3 is outside any try block: when it rejects, the exception
\* leaves the handler
DemoLookupThrows(p) ==
  /\ run[p].pc = "d_lookup"
  /\ run' = [run EXCEPT ![p].pc = "caught"]
  /\ UNCHANGED <<jobs, demoRows, orgRows, env>>

DemoLookup(p) == DemoLookupReturns(p) \/ DemoLookupThrows(p)

\* a variant whose row also records which run wrote it
DemoMergedRowPerRun(p) ==
  [exists |-> TRUE, status |-> "completed", fields |-> run[p].ref.fields, by |-> p]

\* the row the MERGE leaves: status 'completed', the metrics as read
DemoMergedRow(p) ==
  [exists |-> TRUE, status |-> "completed", fields |-> run[p].ref.fields]

\* STEP 4: MERGE into 1_demographicJobs
DemoMergeReturns(p) ==
  /\ run[p].pc = "d_merge"
  /\ demoRows' = [demoRows EXCEPT ![run[p].job] = DemoMergedRow(p)]
  /\ run' = [run EXCEPT ![p].pc = "d_completed"]
  /\ UNCHANGED <<jobs, orgRows, env>>

\* the MERGE throws into the catch
DemoMergeThrows(p) ==
  /\ run[p].pc = "d_merge"
  /\ run' = [run EXCEPT ![p].pc = "d_failed"]
  /\ UNCHANGED <<jobs, demoRows, orgRows, env>>

DemoMerge(p) == DemoMergeReturns(p) \/ DemoMergeThrows(p)

\* markSegmentStatus(jobId, '1_demographics_Status', 'failed'); updateOverallStatus; return
DemoFailed(p) ==
  /\ run[p].pc = "d_failed"
  /\ MarkThenAggregate(p, "demo", "failed", "done")

\* a variant of the last step that leaves the segment pending
DemoCompletedLeavesPending(p) ==
  /\ run[p].pc = "d_completed"
  /\ MarkThenAggregate(p, "demo", "pending", "done")

\* STEP 5 and 6: set segment completed, recalculate main job status
DemoCompleted(p) ==
  /\ run[p].pc = "d_completed"
  /\ MarkThenAggregate(p, "demo", "completed", "done")

-----------------------------------------------------------------------------
(* organic.js: handleOrganicStage                                          *)

OrgLoad(p) ==
  /\ run[p].pc = "o_load"
  /\ run' = [run EXCEPT ![p].pc = IF jobs[run[p].job].exists THEN "o_pending" ELSE "done",
                        ![p].snap = Loaded(jobs[run[p].job])]
  /\ UNCHANGED <<jobs, demoRows, orgRows, env>>

\* Mark segment pending and bump overall status
OrgPending(p) ==
  /\ run[p].pc = "o_pending"
  /\ MarkThenAggregate(p, "org", "pending", "o_post")

\* axios.post(ORGANIC_WEBHOOK_URL, payload, {timeout: 15000}): accepted, or throws
OrgPost(p) ==
  /\ run[p].pc = "o_post"
  /\ \E accepted \in BOOLEAN :
       run' = [run EXCEPT ![p].pc = IF accepted THEN "o_seed" ELSE "o_failed",
                          ![p].posted = IF accepted THEN "accepted" ELSE "failed"]
  /\ UNCHANGED <<jobs, demoRows, orgRows, env>>

\* the seeding MERGE writes jobId, date, businessName, website from the job loaded
\* and leaves the ranks
OrgSeededRow(job, old) ==
  [exists |-> TRUE, ranks |-> IF old.exists THEN old.ranks ELSE NULL,
   date |-> job.createdAt, businessName |-> job.businessName, website |-> job.website]

\* Seed empty row in 7_organicSearch_Jobs, inside the same try block as the post
OrgSeed(p) ==
  /\ run[p].pc = "o_seed"
  /\ \/ /\ orgRows' = [orgRows EXCEPT ![run[p].job] = OrgSeededRow(run[p].snap, @)]
        /\ run' = [run EXCEPT ![p].pc = "done"]
     \/ /\ orgRows' = orgRows
        /\ run' = [run EXCEPT ![p].pc = "o_failed"]
  /\ UNCHANGED <<jobs, demoRows, env>>

\* catch (err): mark failed, update overall status
OrgFailed(p) ==
  /\ run[p].pc = "o_failed"
  /\ MarkThenAggregate(p, "org", "failed", "done")

-----------------------------------------------------------------------------
(* organic.js: handleOrganicCallback                                       *)

\* what a callback item says of its twenty rank fields
RankPatterns == {"all", "some", "none"}
\* the items posted: for the job that exists every rank pattern; for a jobId
\* with no job row and for an item without jobId, whose ranks are never read, one
Items ==
  [jobId : {"j1"}, ranks : RankPatterns] \cup [jobId : {"j2", NULL}, ranks : {"all"}]
MaxItems == 2

\* a variant of the loop that attributes an item without jobId to the first job
CbNextDefaultJob(p) ==
  /\ run[p].pc = "c_next"
  /\ IF run[p].items = <<>>
       THEN run' = [run EXCEPT ![p].pc = "done"]
       ELSE run' = [run EXCEPT ![p].pc = "c_load",
                               ![p].job = IF Head(run[p].items).jobId = NULL THEN "j1"
                                          ELSE Head(run[p].items).jobId]
  /\ UNCHANGED <<jobs, demoRows, orgRows, env>>

\* for (const item of items): an item without jobId is skipped, without an await
CbNext(p) ==
  /\ run[p].pc = "c_next"
  /\ IF run[p].items = <<>>
       THEN run' = [run EXCEPT ![p].pc = "done"]
       ELSE IF Head(run[p].items).jobId = NULL
         THEN run' = [run EXCEPT ![p].items = Tail(@), ![p].skipped = @ + 1]
         ELSE run' = [run EXCEPT ![p].pc = "c_load", ![p].job = Head(run[p].items).jobId]
  /\ UNCHANGED <<jobs, demoRows, orgRows, env>>

CbLoad(p) ==
  /\ run[p].pc = "c_load"
  /\ run' = [run EXCEPT ![p].pc = IF jobs[run[p].job].exists THEN "c_merge" ELSE "c_orphan",
                        ![p].snap = Loaded(jobs[run[p].job])]
  /\ UNCHANGED <<jobs, demoRows, orgRows, env>>

\* if (!job): markSegmentStatus(failed); updateOverallStatus; continue
CbOrphan(p) ==
  /\ run[p].pc = "c_orphan"
  /\ MarkThenAggregate(p, "org", "failed", "c_next")

\* a variant of the row that takes the contextual fields from the item posted
CbMergedRowFromPayload(job, item) ==
  [exists |-> TRUE, ranks |-> item.ranks,
   date |-> item.date, businessName |-> item.businessName, website |-> item.website]

\* the row MERGE_ORGANIC_SQL leaves: safeStr of every rank field of the item (a
\* missing field is stored as ''); dateIso = bqTimestampToIso(job.createdAt),
\* website = safeStr(job.website), businessName = safeStr(job.businessName)
CbMergedRow(job, item) ==
  [exists |-> TRUE, ranks |-> item.ranks,
   date |-> job.createdAt, businessName |-> job.businessName, website |-> job.website]

\* MERGE_ORGANIC_SQL succeeds
CbMergeReturns(p) ==
  /\ run[p].pc = "c_merge"
  /\ orgRows' = [orgRows EXCEPT ![run[p].job] = CbMergedRow(run[p].snap, Head(run[p].items))]
  /\ run' = [run EXCEPT ![p].pc = "c_completed"]
  /\ UNCHANGED <<jobs, demoRows, env>>

\* MERGE_ORGANIC_SQL throws into the catch
CbMergeThrows(p) ==
  /\ run[p].pc = "c_merge"
  /\ run' = [run EXCEPT ![p].pc = "c_failed"]
  /\ UNCHANGED <<jobs, demoRows, orgRows, env>>

CbMerge(p) == CbMergeReturns(p) \/ CbMergeThrows(p)

CbCompleted(p) ==
  /\ run[p].pc = "c_completed"
  /\ MarkThenAggregate(p, "org", "completed", "c_next")

CbFailed(p) ==
  /\ run[p].pc = "c_failed"
  /\ MarkThenAggregate(p, "org", "failed", "c_next")

-----------------------------------------------------------------------------
(* Spec: the jobHelpers generation under at-least-once, unordered delivery *)

\* what a demographics invocation found: overall status, segment status, result row,
\* and whether no other invocation was in flight; what an organic trigger found:
\* segment status and result row
Found(kind, j) ==
  IF kind \in {"demo", "stage"} /\ jobs[j].exists
    THEN [exists |-> TRUE, status |-> jobs[j].status, demo |-> jobs[j].demo,
          row |-> demoRows[j], alone |-> \A q \in Procs : Idle(q)]
    ELSE IF kind = "org" /\ jobs[j].exists
      THEN [exists |-> TRUE, org |-> jobs[j].org, row |-> orgRows[j]]
      ELSE NoRow

NewJob(location, s0) ==
  [exists |-> TRUE, status |-> "queued", demo |-> s0, org |-> s0, paid |-> "queued",
   location |-> location, businessName |-> "Acme", website |-> "acme.example",
   createdAt |-> "t0"]

Init ==
  /\ \E l \in Locations, s0 \in {NULL, "queued"} :
       jobs = [j \in JobIds |-> IF j = "j1" THEN NewJob(l, s0) ELSE NoRow]
  /\ demoRows = [j \in JobIds |-> NoRow]
  /\ orgRows = [j \in JobIds |-> NoRow]
  /\ run = [p \in Procs |-> IdleRun]
  /\ env = Env0

\* invocations are interchangeable: a delivery takes the first free one
Free(p) == Idle(p) /\ \A q \in Procs : q < p => ~Idle(q)

Started(p, kind, j, pc) ==
  [IdleRun EXCEPT !.kind = kind, !.job = j, !.pc = pc, !.at = Found(kind, j)]

\* a variant of the dispatch that runs the demographics stage by default
StageEntryDefaultDemographics(stage) ==
  CASE stage = "demographics" -> "d_load"
    [] stage = "7_organicSearch" -> "o_load"
    [] OTHER -> "d_load"

\* if (stage === 'demographics') ... else if (stage === '7_organicSearch') ... else log
StageEntry(stage) ==
  CASE stage = "demographics" -> "d_load"
    [] stage = "7_organicSearch" -> "o_load"
    [] OTHER -> "done"

\* the Message Channel delivers {jobId, stage: 'demographics'}
DeliverDemographics(p) ==
  /\ Free(p)
  /\ env.deliveries < MaxDeliveries
  /\ \E j \in JobIds : run' = [run EXCEPT ![p] = Started(p, "demo", j, "d_load")]
  /\ env' = [env EXCEPT !.deliveries = @ + 1]
  /\ UNCHANGED <<jobs, demoRows, orgRows>>

\* the Message Channel delivers {jobId, stage: '7_organicSearch'}
DeliverOrganic(p) ==
  /\ Free(p)
  /\ env.deliveries < MaxDeliveries
  /\ \E j \in JobIds : run' = [run EXCEPT ![p] = Started(p, "org", j, "o_load")]
  /\ env' = [env EXCEPT !.deliveries = @ + 1]
  /\ UNCHANGED <<jobs, demoRows, orgRows>>

\* the automation tool posts its result: one item, or an array of items
DeliverCallback(p) ==
  /\ Free(p)
  /\ env.deliveries < MaxDeliveries
  /\ \E n \in 1..MaxItems : \E its \in [1..n -> Items] :
       run' = [run EXCEPT ![p] = [Started(p, "cb", "j1", "c_next") EXCEPT !.items = its]]
  /\ env' = [env EXCEPT !.deliveries = @ + 1]
  /\ UNCHANGED <<jobs, demoRows, orgRows>>

\* the Message Channel delivers a message whose stage names no segment
DeliverUnknown(p) ==
  /\ Free(p)
  /\ env.deliveries < MaxDeliveries
  /\ \E j \in JobIds :
       run' = [run EXCEPT ![p] = Started(p, "unknown", j, StageEntry("8_paidAds"))]
  /\ env' = [env EXCEPT !.deliveries = @ + 1]
  /\ UNCHANGED <<jobs, demoRows, orgRows>>

\* catch (err) of the push endpoint: res.status(500).send()
HandlerError(p) ==
  /\ run[p].pc = "caught"
  /\ run' = [run EXCEPT ![p] = IdleRun]
  /\ UNCHANGED <<jobs, demoRows, orgRows, env>>

\* the response the push endpoint is about to send
Response(p) ==
  CASE run[p].pc = "done" -> "204"
    [] run[p].pc = "caught" -> "500"
    [] OTHER -> NULL

\* the handler returns: res.status(204).send()
HandlerReturn(p) ==
  /\ run[p].pc = "done"
  /\ run' = [run EXCEPT ![p] = IdleRun]
  /\ UNCHANGED <<jobs, demoRows, orgRows, env>>

Next ==
  \/ \E p \in Procs : DeliverDemographics(p)
  \/ \E p \in Procs : DeliverOrganic(p)
  \/ \E p \in Procs : DeliverCallback(p)
  \/ \E p \in Procs : DemoLoad(p)
  \/ \E p \in Procs : DemoPending(p)
  \/ \E p \in Procs : DemoLookup(p)
  \/ \E p \in Procs : DemoMerge(p)
  \/ \E p \in Procs : DemoFailed(p)
  \/ \E p \in Procs : DemoCompleted(p)
  \/ \E p \in Procs : OrgLoad(p)
  \/ \E p \in Procs : OrgPending(p)
  \/ \E p \in Procs : OrgPost(p)
  \/ \E p \in Procs : OrgSeed(p)
  \/ \E p \in Procs : OrgFailed(p)
  \/ \E p \in Procs : CbNext(p)
  \/ \E p \in Procs : CbLoad(p)
  \/ \E p \in Procs : CbOrphan(p)
  \/ \E p \in Procs : CbMerge(p)
  \/ \E p \in Procs : CbCompleted(p)
  \/ \E p \in Procs : CbFailed(p)
  \/ \E p \in Procs : UpdateOverallRead(p)
  \/ \E p \in Procs : UpdateOverallWrite(p)
  \/ \E p \in Procs : DeliverUnknown(p)
  \/ \E p \in Procs : HandlerError(p)
  \/ \E p \in Procs : HandlerReturn(p)

Spec == Init /\ [][Next]_vars

-----------------------------------------------------------------------------
(* Properties of the jobHelpers generation, checked under Spec             *)

\* no handler invocation is in progress
Quiescent == \A p \in Procs : run[p].pc \in {"idle", "done"}

\* C1: in every state in which no run is in progress, the stored overall status
\* of every job is the reducer applied to its stored segment statuses.
\* updateOverallStatus reads, computes and writes in separate statements, so a
\* run can store a result computed from statuses that have changed since.
C1_OverallIsReducerOfSegments ==
  Quiescent =>
    \A j \in JobIds :
      jobs[j].exists => jobs[j].status = HelpersReduce(Segs(jobs[j]))

\* invocation p is a demographics run that has returned, was delivered while
\* nothing else ran, and nothing has been delivered since
RanAlone(p) ==
  /\ run[p].pc = "done"
  /\ run[p].kind = "demo"
  /\ run[p].at.exists
  /\ run[p].at.alone
  /\ \A q \in Procs : q # p => Idle(q)

\* C9: a demographics run delivered for a job whose segment status is already
\* completed and whose result row is populated leaves the result row and the
\* stored overall status as it found them.  handleDemographicsStage has no
\* such guard: it marks the segment pending and runs lookup and MERGE again.
C9_RedeliveryChangesNothing ==
  \A p \in Procs :
    /\ RanAlone(p)
    /\ env.deliveries = MaxDeliveries
    /\ run[p].at.demo = "completed"
    /\ run[p].at.row.exists
    => /\ demoRows[run[p].job] = run[p].at.row
       /\ jobs[run[p].job].status = run[p].at.status

\* C10: the segment status a demographics run writes after storing the metrics
\* is the classification of the metrics: failed when all are null, completed
\* when none is, partial otherwise.  handleDemographicsStage writes completed
\* whatever the metrics are.
C10_StatusIsClassification ==
  \A p \in Procs :
    /\ RanAlone(p)
    /\ env.deliveries = 1
    /\ demoRows[run[p].job].exists
    => jobs[run[p].job].demo = Classify(run[p].ref.fields)

\* C15: whatever the processor does, return or throw, the Dispatcher answers
\* the delivery with an acknowledgement (2xx).  The push endpoint of the first
\* generation answers 500 from its catch block, which the channel retries.
C15_ThrowIsAcknowledged ==
  \A p \in Procs : Response(p) \in {NULL, "204"}

\* C16: a message whose stage names no segment is acknowledged at once, and no
\* step of its handling changes a Job field or a SegmentResult row.
C16_UnknownStageIsNoOp ==
  [][\A p \in Procs :
       (run[p].kind = "unknown" \/ run'[p].kind = "unknown") /\ run'[p] # run[p]
         => /\ UNCHANGED <<jobs, demoRows, orgRows>>
            /\ run'[p].kind = "unknown" => Response(p)' = "204"]_vars

C16_Witness ==
  \E p \in Procs :
    /\ run[p].kind = "unknown"
    /\ Response(p) = "204"
    /\ jobs[run[p].job].exists
    /\ \E q \in Procs : run[q].kind = "demo" /\ run[q].pc = "d_merge"

\* C37: the overall status `completed` is reached through the dispatched stages: when
\* the demographics run and the organic-search callback of a job have both ended
\* with their segment `completed` and nothing is in progress, the stored overall
\* status is `completed`.
C37_CompletedIsReached ==
  \A j \in JobIds :
    ( /\ Quiescent
      /\ jobs[j].exists
      /\ jobs[j].demo = "completed"
      /\ jobs[j].org = "completed" )
    => jobs[j].status = "completed"

\* C35: the demographics processor invoked with a jobId for which no Job exists
\* performs no write at all: every step of such an invocation leaves the Job table
\* and both result tables as they are, and the step after the load ends it.
C35_MissingJobWritesNothing ==
  [][\A p \in Procs :
       ( /\ run'[p].kind = "demo" \/ run[p].kind = "demo"
         /\ ~jobs[IF run[p].kind = "demo" THEN run[p].job ELSE run'[p].job].exists
         /\ run'[p] # run[p] )
       => /\ UNCHANGED <<jobs, demoRows, orgRows>>
          /\ run[p].pc = "d_load" => run'[p].pc = "done"]_vars

C35_Witness ==
  \E p \in Procs :
    /\ run[p].kind = "demo"
    /\ ~jobs[run[p].job].exists
    /\ run[p].pc = "done"
    /\ run[p].snap = NoRow

\* C20: once the trigger call of a Phase A run has been accepted, the segment's
\* status stays `pending` until a Phase B callback is processed or a trigger run
\* whose call failed writes it: no other step takes the segment out of `pending`.
C20_PendingUntilCallback ==
  [][\A p \in Procs :
       ( /\ run[p].kind = "org"
         /\ run[p].posted = "accepted"
         /\ jobs[run[p].job].org = "pending"
         /\ jobs'[run[p].job].org # "pending" )
       => \E q \in Procs :
            /\ run'[q] # run[q]
            /\ \/ run[q].kind = "cb"
               \/ run[q].kind = "org" /\ run[q].posted = "failed"]_vars

\* C23: a segment processor writes only its own segment's status field and its
\* own SegmentResult row: no step of a demographics run changes an organic-search
\* status or a row of 7_organicSearch_Jobs, and no step of an organic trigger or
\* callback changes a demographics status or a row of 1_demographicJobs.
C23_ProcessorsWriteOwnSegment ==
  [][\A p \in Procs :
       run'[p] # run[p] =>
         /\ run[p].kind = "demo" =>
              /\ orgRows' = orgRows
              /\ \A j \in JobIds : jobs[j].exists => jobs'[j].org = jobs[j].org
         /\ run[p].kind \in {"org", "cb"} =>
              /\ demoRows' = demoRows
              /\ \A j \in JobIds : jobs[j].exists => jobs'[j].demo = jobs[j].demo]_vars

\* a demographics run and a callback have both written their status and their
\* row for the same job
C23_Witness ==
  /\ \E p \in Procs : run[p].kind = "cb" /\ run[p].pc = "done"
  /\ jobs["j1"].demo = "completed"
  /\ jobs["j1"].org = "completed"
  /\ demoRows["j1"].exists
  /\ orgRows["j1"].exists

\* C25: when no ReferenceRecord exists for the Job's location, the synchronous
\* processor ends with a SegmentResult row present for the job, all its fields
\* null and its status `no_data` or `failed`, and the Job's segment status set to
\* that same status.
C25_NoReferenceLeavesEmptyRow ==
  \A p \in Procs :
    ( /\ run[p].kind = "demo"
      /\ run[p].pc = "done"
      /\ run[p].snap.exists
      /\ ~RefTable(run[p].snap.location).exists
      /\ env.deliveries = 1 )
    => /\ demoRows[run[p].job].exists
       /\ demoRows[run[p].job].status \in {"no_data", "failed"}
       /\ \A f \in DemoFields : demoRows[run[p].job].fields[f] = NULL
       /\ jobs[run[p].job].demo = demoRows[run[p].job].status

\* C26: the placeholder upsert precedes the outbound trigger call: once a Phase A
\* run has issued its call, accepted or not, a SegmentResult row exists for the
\* job.
C26_PlaceholderPrecedesTrigger ==
  \A p \in Procs :
    (run[p].kind = "org" /\ run[p].posted # NULL) => orgRows[run[p].job].exists

\* the completeness classification over the rank fields of a callback item
RankClassification(ranks) ==
  CASE ranks = "none" -> "failed"
    [] ranks = "all" -> "completed"
    [] ranks = "some" -> "partial"

\* C27: a Phase B callback writes, once its upsert has succeeded, the segment
\* status its result fields classify to: `failed` when no field is non-empty,
\* `completed` when all are, `partial` otherwise.
C27_CallbackStatusIsClassification ==
  [][\A p \in Procs :
       (run[p].kind = "cb" /\ run[p].pc = "c_completed" /\ run'[p].pc # "c_completed")
         => jobs'[run[p].job].org = RankClassification(Head(run[p].items).ranks)]_vars

\* C28: every transition of the asynchronous segment's status out of `pending` is
\* made by a Phase B callback or by a Phase A run whose trigger call failed, and
\* ends in `completed`, `partial` or `failed`; no other step moves it.
C28_OutOfPendingByCallbackOrFailure ==
  [][\A j \in JobIds :
       (jobs[j].exists /\ jobs[j].org = "pending" /\ jobs'[j].org # "pending")
         => /\ jobs'[j].org \in {"completed", "partial", "failed"}
            /\ \E q \in Procs :
                 /\ run'[q] # run[q]
                 /\ run[q].job = j
                 /\ \/ run[q].kind = "cb"
                    \/ run[q].kind = "org" /\ run[q].posted = "failed"]_vars

\* C29: a Phase A trigger delivered for a job whose asynchronous segment is
\* already in a terminal status does not move the segment status back to
\* `pending`, does not change the SegmentResult row and does not issue an
\* outbound call.
C29_TerminalSegmentNotRetriggered ==
  [][\A p \in Procs :
       ( /\ run[p].kind = "org"
         /\ run'[p] # run[p]
         /\ run[p].at.exists
         /\ run[p].at.org \in Terminal )
       => /\ jobs'[run[p].job].org # "pending"
          /\ orgRows' = orgRows
          /\ run'[p].posted = NULL]_vars

\* C30: a callback record that carries no jobId causes no state change: the step
\* that meets it writes no Job field and no SegmentResult row, and goes on to the
\* next record.
C30_RecordWithoutJobIdIsSkipped ==
  [][\A p \in Procs :
       ( /\ run[p].kind = "cb"
         /\ run[p].pc = "c_next"
         /\ run[p].items # <<>>
         /\ Head(run[p].items).jobId = NULL
         /\ run'[p] # run[p] )
       => /\ UNCHANGED <<jobs, demoRows, orgRows>>
          /\ run'[p].pc = "c_next"
          /\ run'[p].items = Tail(run[p].items)]_vars

\* a callback of two records, the first without jobId, has been processed to its
\* end: the first was skipped and the second was written for its job
C30_Witness ==
  \E p \in Procs :
    /\ run[p].kind = "cb"
    /\ run[p].pc = "done"
    /\ run[p].skipped = 1
    /\ orgRows["j1"].exists
    /\ jobs["j1"].org = "completed"

-----------------------------------------------------------------------------
(* SpecContext: callbacks of organic.js for two jobs submitted with the same *)
(* content, the items carrying contextual fields of their own, no store fault *)

\* what the automation tool may post beside the result fields
PayloadContext ==
  [date : {"t0", "t9"}, businessName : {"Acme", "Other"}, website : {"acme.example"}]

ContextItems ==
  {[jobId |-> j, ranks |-> r, date |-> c.date, businessName |-> c.businessName,
    website |-> c.website] : j \in JobIds, r \in RankPatterns, c \in PayloadContext}

\* the automation tool posts one result item
ContextDeliver(p) ==
  /\ Free(p)
  /\ env.deliveries < MaxDeliveries
  /\ \E item \in ContextItems :
       run' = [run EXCEPT ![p] = [Started(p, "cb", item.jobId, "c_next")
                                    EXCEPT !.items = <<item>>, !.body = <<item>>]]
  /\ env' = [env EXCEPT !.deliveries = @ + 1]
  /\ UNCHANGED <<jobs, demoRows, orgRows>>

InitContext ==
  /\ \E l \in Locations, s0 \in {NULL, "queued"} : jobs = [j \in JobIds |-> NewJob(l, s0)]
  /\ demoRows = [j \in JobIds |-> NoRow]
  /\ orgRows = [j \in JobIds |-> NoRow]
  /\ run = [p \in Procs |-> IdleRun]
  /\ env = Env0

NextContext ==
  \/ \E p \in Procs : ContextDeliver(p)
  \/ \E p \in Procs : CbNext(p)
  \/ \E p \in Procs : CbLoad(p)
  \/ \E p \in Procs : CbMergeReturns(p)
  \/ \E p \in Procs : CbCompleted(p)
  \/ \E p \in Procs : UpdateOverallRead(p)
  \/ \E p \in Procs : UpdateOverallWrite(p)
  \/ \E p \in Procs : HandlerReturn(p)

SpecContext == InitContext /\ [][NextContext]_vars

\* two callbacks and no more have been processed, one for each of the two jobs, with the same
\* result fields and different contextual fields in their items
TwoCallbacksDifferInContext ==
  /\ env.deliveries = 2
  /\ \E p, q \in Procs :
       /\ run[p].pc = "done" /\ run[p].kind = "cb" /\ run[p].job = "j1"
       /\ run[q].pc = "done" /\ run[q].kind = "cb" /\ run[q].job = "j2"
       /\ run[p].body[1].ranks = run[q].body[1].ranks
       /\ <<run[p].body[1].date, run[p].body[1].businessName>>
            # <<run[q].body[1].date, run[q].body[1].businessName>>

\* C32: the contextual fields a callback stores depend on the Job only: two callbacks
\* for jobs of the same content whose items differ in nothing but fields other than
\* the result fields leave identical rows and identical statuses, and the
\* contextual fields of the rows are the job's.
C32_ContextComesFromJob ==
  TwoCallbacksDifferInContext
  => /\ orgRows["j1"] = orgRows["j2"]
     /\ Segs(jobs["j1"]) = Segs(jobs["j2"])
     /\ jobs["j1"].status = jobs["j2"].status
     /\ orgRows["j1"].businessName = jobs["j1"].businessName
     /\ orgRows["j1"].website = jobs["j1"].website
     /\ orgRows["j1"].date = jobs["j1"].createdAt

C32_Witness ==
  /\ TwoCallbacksDifferInContext
  /\ orgRows["j1"].exists
  /\ orgRows["j2"].exists
  /\ jobs["j1"].org = "completed"

-----------------------------------------------------------------------------
(* The demographics stage of the jobHelpers generation delivered more than *)
(* once, with no fault: no statement throws                                *)

NextNoFault ==
  \/ \E p \in Procs : DeliverDemographics(p)
  \/ \E p \in Procs : DemoLoad(p)
  \/ \E p \in Procs : DemoPending(p)
  \/ \E p \in Procs : DemoLookupReturns(p)
  \/ \E p \in Procs : DemoMergeReturns(p)
  \/ \E p \in Procs : DemoFailed(p)
  \/ \E p \in Procs : DemoCompleted(p)
  \/ \E p \in Procs : UpdateOverallRead(p)
  \/ \E p \in Procs : UpdateOverallWrite(p)
  \/ \E p \in Procs : HandlerReturn(p)

SpecNoFault == Init /\ [][NextNoFault]_vars

\* what one run of the demographics stage leaves for a job at this location:
\* segment status, result row, overall status
OneRunLeaves(j) ==
  LET d == RefTable(jobs[j].location)
      demo == IF d.exists THEN "completed" ELSE "failed"
  IN [demo |-> demo,
      row |-> IF d.exists THEN [exists |-> TRUE, status |-> "completed", fields |-> d.fields]
              ELSE NoRow,
      status |-> HelpersReduce(<<demo, jobs[j].org, jobs[j].paid>>)]

\* C14: with no faults and unchanged reference data, when at most two runs of
\* the demographics stage were started and all have returned - one run, two runs
\* one after the other, or two runs interleaved in any way - the segment status,
\* the result row and the overall status are those one run leaves.
C14_ConcurrentRunsConverge ==
  \A j \in JobIds :
    Quiescent /\ env.deliveries <= 2 /\ jobs[j].exists /\ jobs[j].demo \notin {NULL, "queued"}
      => /\ jobs[j].demo = OneRunLeaves(j).demo
         /\ demoRows[j] = OneRunLeaves(j).row
         /\ jobs[j].status = OneRunLeaves(j).status

\* two runs for the same job overlapped: the second found the segment pending
\* while the first was still running, and both have returned
C14_Witness ==
  \E p \in Procs :
    /\ Quiescent
    /\ env.deliveries = 2
    /\ run[p].pc = "done"
    /\ run[p].kind = "demo"
    /\ run[p].at.exists
    /\ ~run[p].at.alone
    /\ run[p].at.demo = "pending"
    /\ jobs[run[p].job].demo = "completed"

\* one statement of a demographics invocation in flight
NoFaultStep(p) ==
  \/ DemoLoad(p)
  \/ DemoPending(p)
  \/ DemoLookupReturns(p)
  \/ DemoMergeReturns(p)
  \/ DemoFailed(p)
  \/ DemoCompleted(p)
  \/ UpdateOverallRead(p)
  \/ UpdateOverallWrite(p)
  \/ HandlerReturn(p)

\* no invocation is suspended for ever: the event loop resumes each one when the
\* statement it awaits settles
SpecNoFaultFair == SpecNoFault /\ \A p \in Procs : WF_vars(NoFaultStep(p))

\* C38: under fair scheduling and with no store or network fault, every run of the
\* demographics processor for an existing Job reaches its end, having written the
\* segment status, and a segment status `pending` is always followed by a terminal
\* one: the segment is never left `pending` or `queued`.
C38_RunEndsTerminal ==
  /\ \A p \in Procs :
       (run[p].kind = "demo" /\ run[p].at.exists)
         ~> ( /\ run[p].pc = "done"
              /\ jobs[run[p].job].exists
              /\ jobs[run[p].job].demo \in Terminal \cup {"pending"} )
  /\ \A j \in JobIds :
       (jobs[j].exists /\ jobs[j].demo = "pending")
         ~> (jobs[j].exists /\ jobs[j].demo \in Terminal)
  /\ \A j \in JobIds :
       (jobs[j].exists /\ jobs[j].demo = "pending")
         ~> [](jobs[j].exists /\ jobs[j].demo # "queued")

C38_Witness ==
  \E p \in Procs :
    /\ \A q \in Procs \ {p} : Idle(q)
    /\ run[p].pc = "done"
    /\ run[p].kind = "demo"
    /\ run[p].at.exists
    /\ run[p].at.demo \in {NULL, "queued"}
    /\ jobs[run[p].job].demo \in Terminal

-----------------------------------------------------------------------------
(* worker.js, second generation: processJobDemographics and its helpers.   *)
(* The Job row has demographicsStatus, paidAdsStatus and status; the       *)
(* result table is jobs_demographics.                                      *)

\* UPDATE client_audits_jobs SET demographicsStatus = @demographicsStatus,
\*   status = CASE ... END WHERE jobId = @jobId
SafeUpdateJobDemographicsStatus(j, demographicsStatus) ==
  LET row == jobs[j] IN
  IF ~row.exists THEN jobs
  ELSE [jobs EXCEPT ![j] =
          [row EXCEPT !.demo = demographicsStatus,
                      !.status = IF demographicsStatus = "completed" /\ row.paid = "completed"
                                   THEN "completed"
                                 ELSE IF demographicsStatus \in {"no_location", "no_data"}
                                   THEN "needs_review"
                                 ELSE row.status]]

\* the statement inside safeUpdateJobDemographicsStatus succeeds, or its error is logged
SafeUpdateStep(p, demographicsStatus) ==
  /\ \/ jobs' = SafeUpdateJobDemographicsStatus(run[p].job, demographicsStatus)
     \/ jobs' = jobs
  /\ run' = [run EXCEPT ![p].pc = "done"]
  /\ UNCHANGED <<demoRows, orgRows, env>>

\* Step 1: load job row from client_audits_jobs
LegacyLoad(p) ==
  /\ run[p].pc = "l_load"
  /\ LET row == jobs[run[p].job] IN
       run' = [run EXCEPT ![p].pc = IF ~row.exists THEN "done"
                                    ELSE IF row.location = NULL THEN "l_nolocation"
                                    ELSE "l_existing",
                          ![p].snap = Loaded(row)]
  /\ UNCHANGED <<jobs, demoRows, orgRows, env>>

\* if (!location): safeUpdateJobDemographicsStatus(jobId, 'no_location'); return
LegacyNoLocation(p) ==
  /\ run[p].pc = "l_nolocation"
  /\ SafeUpdateStep(p, "no_location")

\* Step 2: SELECT jobId, status FROM jobs_demographics
LegacyExisting(p) ==
  /\ run[p].pc = "l_existing"
  /\ run' = [run EXCEPT ![p].pc = IF demoRows[run[p].job].exists THEN "l_lookup"
                                  ELSE "l_insert"]
  /\ UNCHANGED <<jobs, demoRows, orgRows, env>>

\* the pending row: status 'pending', every metric null.  The table has no key:
\* copies counts the rows that carry this jobId
LegacyPendingRow ==
  [exists |-> TRUE, status |-> "pending", fields |-> [f \in DemoFields |-> NULL],
   copies |-> 1]

\* table.insert([pendingRow]) appends a row; on an error the function returns
LegacyInsert(p) ==
  /\ run[p].pc = "l_insert"
  /\ \/ /\ demoRows' = [demoRows EXCEPT ![run[p].job] =
                          IF @.exists THEN [@ EXCEPT !.copies = @ + 1]
                          ELSE LegacyPendingRow]
        /\ run' = [run EXCEPT ![p].pc = "l_lookup"]
     \/ /\ demoRows' = demoRows
        /\ run' = [run EXCEPT ![p].pc = "done"]
  /\ UNCHANGED <<jobs, orgRows, env>>

\* Step 3: load demographics for this location
LegacyLookup(p) ==
  /\ run[p].pc = "l_lookup"
  /\ LET d == RefTable(run[p].snap.location) IN
       run' = [run EXCEPT ![p].pc = IF d.exists THEN "l_update" ELSE "l_nodata",
                          ![p].ref = d]
  /\ UNCHANGED <<jobs, demoRows, orgRows, env>>

\* safeUpdateJobsDemographicsRow(jobId, {status: 'no_data'}): errors are logged
LegacyNoData(p) ==
  /\ run[p].pc = "l_nodata"
  /\ \/ demoRows' = [demoRows EXCEPT ![run[p].job] =
                       IF @.exists THEN [@ EXCEPT !.status = "no_data"] ELSE @]
     \/ demoRows' = demoRows
  /\ run' = [run EXCEPT ![p].pc = "l_nodata_job"]
  /\ UNCHANGED <<jobs, orgRows, env>>

\* safeUpdateJobDemographicsStatus(jobId, 'no_data'); return
LegacyNoDataJob(p) ==
  /\ run[p].pc = "l_nodata_job"
  /\ SafeUpdateStep(p, "no_data")

\* Step 4: UPDATE jobs_demographics SET status = 'completed', the metrics as read
\* (d.x ?? null); on an error the function returns
LegacyUpdate(p) ==
  /\ run[p].pc = "l_update"
  /\ \/ /\ demoRows' = [demoRows EXCEPT ![run[p].job] =
                          IF @.exists
                            THEN [@ EXCEPT !.status = "completed", !.fields = run[p].ref.fields]
                            ELSE @]
        /\ run' = [run EXCEPT ![p].pc = "l_completed"]
     \/ /\ demoRows' = demoRows
        /\ run' = [run EXCEPT ![p].pc = "done"]
  /\ UNCHANGED <<jobs, orgRows, env>>

\* Step 5: safeUpdateJobDemographicsStatus(jobId, 'completed')
LegacyCompleted(p) ==
  /\ run[p].pc = "l_completed"
  /\ SafeUpdateStep(p, "completed")

\* the row POST /jobs and the later stages leave for this generation
LegacyJob(location, paid) ==
  [exists |-> TRUE, status |-> "queued", demo |-> "queued", org |-> NULL, paid |-> paid,
   location |-> location, businessName |-> "Acme", website |-> "acme.example",
   createdAt |-> "t0"]

InitLegacy ==
  /\ \E l \in Locations \cup {NULL}, paid \in {"queued", "completed"} :
       jobs = [j \in JobIds |-> IF j = "j1" THEN LegacyJob(l, paid) ELSE NoRow]
  /\ demoRows = [j \in JobIds |-> NoRow]
  /\ orgRows = [j \in JobIds |-> NoRow]
  /\ run = [p \in Procs |-> IdleRun]
  /\ env = Env0

\* app.post('/'): the Pub/Sub push carries {jobId}
LegacyDeliver(p) ==
  /\ Free(p)
  /\ env.deliveries < MaxDeliveries
  /\ \E j \in JobIds : run' = [run EXCEPT ![p] = Started(p, "legacy", j, "l_load")]
  /\ env' = [env EXCEPT !.deliveries = @ + 1]
  /\ UNCHANGED <<jobs, demoRows, orgRows>>

NextLegacy ==
  \/ \E p \in Procs : LegacyDeliver(p)
  \/ \E p \in Procs : LegacyLoad(p)
  \/ \E p \in Procs : LegacyNoLocation(p)
  \/ \E p \in Procs : LegacyExisting(p)
  \/ \E p \in Procs : LegacyInsert(p)
  \/ \E p \in Procs : LegacyLookup(p)
  \/ \E p \in Procs : LegacyNoData(p)
  \/ \E p \in Procs : LegacyNoDataJob(p)
  \/ \E p \in Procs : LegacyUpdate(p)
  \/ \E p \in Procs : LegacyCompleted(p)
  \/ \E p \in Procs : HandlerReturn(p)

SpecLegacy == InitLegacy /\ [][NextLegacy]_vars

-----------------------------------------------------------------------------
(* Property of the second generation of worker.js, checked under SpecLegacy *)

\* C2: the overall status of a job changes only in the UPDATE of an Aggregator
\* run; no step of a segment processor assigns it.
\* safeUpdateJobDemographicsStatus assigns status in the statement that sets
\* demographicsStatus, to 'completed' or to 'needs_review'.
C2_OnlyAggregatorWritesOverall ==
  [][\A j \in JobIds :
       jobs[j].exists /\ jobs'[j].status # jobs[j].status
         => \E p \in Procs : run[p].pc \in {"agg_write", "st_write", "mm_write"}]_vars

\* C12: in every reachable state, duplicate and concurrent deliveries
\* included, the result table holds at most one row per jobId.  Step 2 of
\* processJobDemographics selects, then inserts: two runs that both find no
\* row both insert one.
C12_OneRowPerJob ==
  \A j \in JobIds : demoRows[j].exists => demoRows[j].copies <= 1

-----------------------------------------------------------------------------
(* worker.js, third generation: handleJobMessage, processJobDemographics,  *)
(* processDemographicsStage, processOrganicSearchStage and their helpers.  *)
(* Every exception is caught by handleJobMessage; the endpoint answers 204. *)

\* new Date().toISOString()
NowIso == env.now

\* processJobDemographics: loadJob; processDemographicsStage up to the test of
\* location (the messages delivered here carry no location of their own)
ProcessJobDemographics(p) ==
  /\ run[p].pc = "p_load"
  /\ LET row == jobs[run[p].job] IN
       run' = [run EXCEPT ![p].pc = IF ~row.exists THEN "done"
                                    ELSE IF row.location = NULL THEN "p_nolocation"
                                    ELSE "p_pending",
                          ![p].snap = Loaded(row)]
  /\ UNCHANGED <<jobs, demoRows, orgRows, env>>

\* a markSegmentStatus of processDemographicsStage, then the statement at next
StageMark(p, s, next) ==
  /\ jobs' = MarkSegmentStatus(run[p].job, "demo", s)
  /\ run' = [run EXCEPT ![p].pc = next]
  /\ UNCHANGED <<demoRows, orgRows, env>>

\* if (!location): markSegmentStatus(failed); return
StageNoLocation(p) ==
  /\ run[p].pc = "p_nolocation"
  /\ StageMark(p, "failed", "done")

\* Step 2: Mark main job demographicsStatus = pending
StagePending(p) ==
  /\ run[p].pc = "p_pending"
  /\ StageMark(p, "pending", "p_lookup")

\* Step 3: load demographics; a rejected query is caught by handleJobMessage
StageLookup(p) ==
  /\ run[p].pc = "p_lookup"
  /\ \/ LET d == RefTable(run[p].snap.location) IN
          run' = [run EXCEPT ![p].pc = IF d.exists THEN "p_merge" ELSE "p_nodata",
                             ![p].ref = d]
     \/ run' = [run EXCEPT ![p].pc = "done"]
  /\ UNCHANGED <<jobs, demoRows, orgRows, env>>

\* the row a MERGE of this generation leaves: createdAt and updatedAt are nowIso
\* on insert and on update alike
StageRow(status, fields) ==
  [exists |-> TRUE, status |-> status, fields |-> fields,
   createdAt |-> NowIso, updatedAt |-> NowIso]

\* overwriteJobsDemographicsRow with null metrics and status 'failed'; a failed
\* MERGE is logged
StageNoData(p) ==
  /\ run[p].pc = "p_nodata"
  /\ \/ demoRows' = [demoRows EXCEPT ![run[p].job] =
                       StageRow("failed", [f \in DemoFields |-> NULL])]
     \/ demoRows' = demoRows
  /\ run' = [run EXCEPT ![p].pc = "p_nodata_mark"]
  /\ UNCHANGED <<jobs, orgRows, env>>

\* markSegmentStatus(jobId, 'demographicsStatus', 'failed'); return
StageNoDataMark(p) ==
  /\ run[p].pc = "p_nodata_mark"
  /\ StageMark(p, "failed", "done")

\* const parsed = {...toNumberOrNull(demo.x)}
Parsed(fields) == [f \in DemoFields |-> ToNumberOrNull(fields[f])]

\* Step 4: classification, nowIso, MERGE into jobs_demographics
StageMerge(p) ==
  /\ run[p].pc = "p_merge"
  /\ LET newDemoStatus == Classify(run[p].ref.fields) IN
       \/ /\ demoRows' = [demoRows EXCEPT ![run[p].job] =
                            StageRow(newDemoStatus, Parsed(run[p].ref.fields))]
          /\ run' = [run EXCEPT ![p].pc = "p_mark", ![p].newStatus = newDemoStatus,
                                ![p].wrote = TRUE]
       \/ /\ demoRows' = demoRows
          /\ run' = [run EXCEPT ![p].pc = "p_merge_failed"]
  /\ UNCHANGED <<jobs, orgRows, env>>

\* catch (err): markSegmentStatus(failed); return
StageMergeFailed(p) ==
  /\ run[p].pc = "p_merge_failed"
  /\ StageMark(p, "failed", "done")

\* Step 5: markSegmentStatus(jobId, 'demographicsStatus', newDemoStatus)
StageMarkResult(p) ==
  /\ run[p].pc = "p_mark"
  /\ StageMark(p, run[p].newStatus, "p_maybe")

\* maybeMarkJobCompleted: the statuses that are set and not 'queued'
ProcessedSegments(row) ==
  SelectSeq(<<row.demo, row.paid, row.org>>, LAMBDA x : x # NULL /\ x # "queued")

\* maybeMarkJobCompleted: loadJob and the two tests
StageMaybeRead(p) ==
  /\ run[p].pc = "p_maybe"
  /\ LET row == jobs[run[p].job] IN
       run' = [run EXCEPT ![p].pc =
                 IF /\ row.exists
                    /\ Len(ProcessedSegments(row)) > 0
                    /\ Every(ProcessedSegments(row), IsCompleted)
                   THEN "p_maybe_write" ELSE "done"]
  /\ UNCHANGED <<jobs, demoRows, orgRows, env>>

\* UPDATE ... SET status = 'completed'
StageMaybeWrite(p) ==
  /\ run[p].pc = "p_maybe_write"
  /\ jobs' = SetStatus(run[p].job, "completed")
  /\ run' = [run EXCEPT ![p].pc = "done"]
  /\ UNCHANGED <<demoRows, orgRows, env>>

\* processOrganicSearchStage: loadJob
StageOrganicLoad(p) ==
  /\ run[p].pc = "p_org_load"
  /\ run' = [run EXCEPT ![p].pc = IF jobs[run[p].job].exists THEN "p_org_fetch" ELSE "done",
                        ![p].snap = Loaded(jobs[run[p].job])]
  /\ UNCHANGED <<jobs, demoRows, orgRows, env>>

\* fetch(ORGANIC_WEBHOOK_URL): ok, not ok or rejected, each only logged
StageOrganicFetch(p) ==
  /\ run[p].pc = "p_org_fetch"
  /\ run' = [run EXCEPT ![p].pc = "done"]
  /\ UNCHANGED <<jobs, demoRows, orgRows, env>>

\* switch (stage) of handleJobMessage
HandleJobMessage(stage) ==
  CASE stage = "demographics" -> "p_load"
    [] stage \in {"7_organicSearch", "organicSearch"} -> "p_org_load"
    [] OTHER -> "done"

StageKind(stage) == IF stage = "demographics" THEN "stage" ELSE "other"

\* app.post('/'): a well-formed message {jobId, stage}
StageDeliver(p) ==
  /\ Free(p)
  /\ env.deliveries < MaxDeliveries
  /\ \E j \in JobIds, stage \in {"demographics", "7_organicSearch", "8_paidAds"} :
       run' = [run EXCEPT ![p] = Started(p, StageKind(stage), j, HandleJobMessage(stage))]
  /\ env' = [env EXCEPT !.deliveries = @ + 1]
  /\ UNCHANGED <<jobs, demoRows, orgRows>>

\* time passes
Tick ==
  /\ env.now < MaxClock
  /\ env' = [env EXCEPT !.now = @ + 1]
  /\ UNCHANGED <<jobs, demoRows, orgRows, run>>

InitStage ==
  /\ \E l \in Locations \cup {NULL} :
       jobs = [j \in JobIds |-> IF j = "j1" THEN LegacyJob(l, "queued") ELSE NoRow]
  /\ demoRows = [j \in JobIds |-> NoRow]
  /\ orgRows = [j \in JobIds |-> NoRow]
  /\ run = [p \in Procs |-> IdleRun]
  /\ env = Env0

NextStage ==
  \/ \E p \in Procs : StageDeliver(p)
  \/ \E p \in Procs : ProcessJobDemographics(p)
  \/ \E p \in Procs : StageNoLocation(p)
  \/ \E p \in Procs : StagePending(p)
  \/ \E p \in Procs : StageLookup(p)
  \/ \E p \in Procs : StageNoData(p)
  \/ \E p \in Procs : StageNoDataMark(p)
  \/ \E p \in Procs : StageMerge(p)
  \/ \E p \in Procs : StageMergeFailed(p)
  \/ \E p \in Procs : StageMarkResult(p)
  \/ \E p \in Procs : StageMaybeRead(p)
  \/ \E p \in Procs : StageMaybeWrite(p)
  \/ \E p \in Procs : StageOrganicLoad(p)
  \/ \E p \in Procs : StageOrganicFetch(p)
  \/ \E p \in Procs : HandlerReturn(p)
  \/ Tick

SpecStage == InitStage /\ [][NextStage]_vars

\* C11: a demographics result applied a second time with unchanged inputs (a
\* duplicate message, delivered when nothing else runs) leaves the result row
\* identical in every column, timestamps included.  The MERGE of
\* processDemographicsStage sets createdAt and updatedAt to the time of the run.
C11_ReapplicationLeavesRowIdentical ==
  \A p \in Procs :
    /\ run[p].pc = "done"
    /\ run[p].kind = "stage"
    /\ run[p].wrote
    /\ run[p].at.exists
    /\ run[p].at.alone
    /\ run[p].at.row.exists
    /\ run[p].at.row.status = Classify(run[p].ref.fields)
    /\ run[p].at.row.fields = Parsed(run[p].ref.fields)
    => demoRows[run[p].job] = run[p].at.row

-----------------------------------------------------------------------------
(* The middle-layer API with its built-in demographics worker             *)
(* (unnamed/part_002): GET /run-demographics, runDemographics.             *)

\* SELECT jobId, location, paidAdsStatus, status ... WHERE demographicsStatus = 'queued'
QueuedJobs ==
  SelectSeq(<<"j1", "j2">>, LAMBDA j : jobs[j].exists /\ jobs[j].demo = "queued")

\* 1) Get all jobs that need demographics processing
BatchSelect(p) ==
  /\ run[p].pc = "b_select"
  /\ run' = [run EXCEPT ![p].pc = IF QueuedJobs = <<>> THEN "done" ELSE "b_next",
                        ![p].items = QueuedJobs]
  /\ UNCHANGED <<jobs, demoRows, orgRows, env>>

\* for (const job of jobRows): a job without location is skipped
BatchNext(p) ==
  /\ run[p].pc = "b_next"
  /\ IF run[p].items = <<>>
       THEN run' = [run EXCEPT ![p].pc = "done"]
       ELSE LET j == Head(run[p].items) IN
            IF jobs[j].location = NULL
              THEN run' = [run EXCEPT ![p].items = Tail(@)]
              ELSE run' = [run EXCEPT ![p].pc = "b_lookup", ![p].job = j,
                                      ![p].snap = Loaded(jobs[j])]
  /\ UNCHANGED <<jobs, demoRows, orgRows, env>>

\* continue, or catch (err) { errors.push(...) }: on to the next job
BatchSkip(r) == [r EXCEPT !.pc = "b_next", !.items = Tail(@)]

\* 2) Fetch demographics row from 1_demographics by location
BatchLookup(p) ==
  /\ run[p].pc = "b_lookup"
  /\ LET d == RefTable(run[p].snap.location) IN
       run' = [run EXCEPT ![p] = IF d.exists THEN [@ EXCEPT !.pc = "b_delete", !.ref = d]
                                 ELSE BatchSkip(@)]
  /\ UNCHANGED <<jobs, demoRows, orgRows, env>>

\* 3) Delete existing row for this jobId to keep idempotent
BatchDelete(p) ==
  /\ run[p].pc = "b_delete"
  /\ demoRows' = [demoRows EXCEPT ![run[p].job] = NoRow]
  /\ run' = [run EXCEPT ![p].pc = "b_insert"]
  /\ UNCHANGED <<jobs, orgRows, env>>

\* const demographicsRow = {...}
BatchRow(p) ==
  [exists |-> TRUE, status |-> "completed", fields |-> run[p].ref.fields,
   createdAt |-> NowIso, copies |-> 1]

\* table.insert([demographicsRow]) appends the row, or throws into the catch
BatchInsert(p) ==
  /\ run[p].pc = "b_insert"
  /\ \/ /\ demoRows' = [demoRows EXCEPT ![run[p].job] =
                          IF @.exists THEN [@ EXCEPT !.copies = @ + 1] ELSE BatchRow(p)]
        /\ run' = [run EXCEPT ![p].pc = "b_update"]
     \/ /\ demoRows' = demoRows
        /\ run' = [run EXCEPT ![p] = BatchSkip(@)]
  /\ UNCHANGED <<jobs, orgRows, env>>

\* 4) UPDATE client_audits_jobs SET demographicsStatus = 'completed', status = CASE ...
BatchUpdate(p) ==
  /\ run[p].pc = "b_update"
  /\ \/ jobs' = [jobs EXCEPT ![run[p].job] =
                   [@ EXCEPT !.demo = "completed",
                             !.status = IF jobs[run[p].job].paid = "completed"
                                          THEN "completed" ELSE @]]
     \/ jobs' = jobs
  /\ run' = [run EXCEPT ![p] = BatchSkip(@)]
  /\ UNCHANGED <<demoRows, orgRows, env>>

\* app.get('/run-demographics')
RunDemographics(p) ==
  /\ Free(p)
  /\ env.deliveries < MaxDeliveries
  /\ run' = [run EXCEPT ![p] = [IdleRun EXCEPT !.kind = "batch", !.pc = "b_select"]]
  /\ env' = [env EXCEPT !.deliveries = @ + 1]
  /\ UNCHANGED <<jobs, demoRows, orgRows>>

NextBatch ==
  \/ \E p \in Procs : RunDemographics(p)
  \/ \E p \in Procs : BatchSelect(p)
  \/ \E p \in Procs : BatchNext(p)
  \/ \E p \in Procs : BatchLookup(p)
  \/ \E p \in Procs : BatchDelete(p)
  \/ \E p \in Procs : BatchInsert(p)
  \/ \E p \in Procs : BatchUpdate(p)
  \/ \E p \in Procs : HandlerReturn(p)

SpecBatch == InitLegacy /\ [][NextBatch]_vars

\* C13: once a result row exists for a job, a row for that job exists in every
\* later state; no step deletes it or leaves it absent for a while.
\* runDemographics deletes the row and inserts its replacement in two
\* statements.
C13_RowNeverAbsentAgain ==
  [][\A j \in JobIds : demoRows[j].exists => demoRows'[j].exists]_vars

-----------------------------------------------------------------------------
(* The status.js generation: worker.js (unnamed/part_008, second file),    *)
(* demographics.js (unnamed/part_001), organicSearch.js (unnamed/part_005) *)

MaxFaults == 1    \* statements that reject in one behaviour

SegmentStages == {"demographics", "7_organicSearch", "8_paidAds"}

\* status.markSegmentStatus: the UPDATE of the segment column; the
\* recomputeAndUpdateMainStatus it awaits next starts at st_read and returns to ret
SegmentMark(p, col, s, ret) ==
  /\ jobs' = MarkSegmentStatus(run[p].job, col, s)
  /\ run' = [run EXCEPT ![p].pc = "st_read", ![p].ret = ret]
  /\ env' = Traced(run[p].job, <<col, s>>)
  /\ UNCHANGED <<demoRows, orgRows>>

\* an awaited statement rejects: the exception leaves the processor
SegmentThrows(p) ==
  /\ env.faults < MaxFaults
  /\ run' = [run EXCEPT ![p].pc = "caught"]
  /\ env' = [env EXCEPT !.faults = @ + 1]
  /\ UNCHANGED <<jobs, demoRows, orgRows>>

\* const job = await loadJob(jobId); if (!job) return; then the idempotency guard:
\* if (demographicsStatus && demographicsStatus !== 'queued') return
SegmentDemoLoad(p) ==
  /\ run[p].pc = "g_load"
  /\ LET job == jobs[run[p].job] IN
       run' = [run EXCEPT ![p].pc = IF ~job.exists THEN "done"
                                     ELSE IF job.demo # NULL /\ job.demo # "queued" THEN "done"
                                     ELSE "g_pending",
                          ![p].snap = Loaded(job)]
  /\ UNCHANGED <<jobs, demoRows, orgRows, env>>

\* Step 2: mark segment pending
SegmentDemoPending(p) ==
  /\ run[p].pc = "g_pending"
  /\ SegmentMark(p, "demo", "pending", "g_lookup")

\* Step 3: load demographics source row; the query is in no try block
SegmentDemoLookup(p) ==
  /\ run[p].pc = "g_lookup"
  /\ \/ /\ LET d == RefTable(run[p].snap.location) IN
             run' = [run EXCEPT ![p].pc = IF d.exists THEN "g_merge" ELSE "g_failed",
                                ![p].ref = d]
        /\ UNCHANGED <<jobs, demoRows, orgRows, env>>
     \/ SegmentThrows(p)

\* if (!demoRows.length): markSegmentStatus(jobId, '1_demographics_Status', 'failed')
SegmentDemoFailed(p) ==
  /\ run[p].pc = "g_failed"
  /\ SegmentMark(p, "demo", "failed", "g_recompute")

\* Step 4: MERGE into 1_demographicJobs, in no try block
SegmentDemoMerge(p) ==
  /\ run[p].pc = "g_merge"
  /\ \/ /\ demoRows' = [demoRows EXCEPT ![run[p].job] = DemoMergedRow(p)]
        /\ run' = [run EXCEPT ![p].pc = "g_completed"]
        /\ env' = Traced(run[p].job, <<"1_demographicJobs", DemoMergedRow(p)>>)
        /\ UNCHANGED <<jobs, orgRows>>
     \/ SegmentThrows(p)

\* Step 5: mark completed
SegmentDemoCompleted(p) ==
  /\ run[p].pc = "g_completed"
  /\ SegmentMark(p, "demo", "completed", "g_recompute")

\* await recomputeMainStatus(jobId): status.js exports markSegmentStatus and
\* recomputeAndUpdateMainStatus, so the imported name is undefined and the call
\* throws a TypeError
SegmentRecomputeMainStatus(p) ==
  /\ run[p].pc = "g_recompute"
  /\ run' = [run EXCEPT ![p].pc = "caught"]
  /\ UNCHANGED <<jobs, demoRows, orgRows, env>>

\* organicSearch.js: loadJob, if (!job) return, the idempotency guard
SegmentOrgLoad(p) ==
  /\ run[p].pc = "q_load"
  /\ LET job == jobs[run[p].job] IN
       run' = [run EXCEPT ![p].pc = IF ~job.exists THEN "done"
                                     ELSE IF job.org # NULL /\ job.org # "queued" THEN "done"
                                     ELSE "q_pending",
                          ![p].snap = Loaded(job)]
  /\ UNCHANGED <<jobs, demoRows, orgRows, env>>

\* Step 1: mark segment pending
SegmentOrgPending(p) ==
  /\ run[p].pc = "q_pending"
  /\ SegmentMark(p, "org", "pending", "q_post")

\* Step 2: await axios.post(N8N_ORG_WEBHOOK_URL, payload, {timeout: 30000}), in no
\* try block: accepted, or the rejection leaves the processor
SegmentOrgPost(p) ==
  /\ run[p].pc = "q_post"
  /\ \/ /\ run' = [run EXCEPT ![p].pc = "q_seed", ![p].posted = "accepted"]
        /\ UNCHANGED <<jobs, demoRows, orgRows, env>>
     \/ /\ env.faults < MaxFaults
        /\ run' = [run EXCEPT ![p].pc = "caught", ![p].posted = "failed"]
        /\ env' = [env EXCEPT !.faults = @ + 1]
        /\ UNCHANGED <<jobs, demoRows, orgRows>>

\* the row the MERGE of step 3 leaves: status 'pending', the rank columns untouched
SegmentSeededRow(old) ==
  [exists |-> TRUE, status |-> "pending", ranks |-> IF old.exists THEN old.ranks ELSE NULL]

\* Step 3: insert or update initial row in 7_organicSearch_Jobs
SegmentOrgSeed(p) ==
  /\ run[p].pc = "q_seed"
  /\ \/ /\ orgRows' = [orgRows EXCEPT ![run[p].job] = SegmentSeededRow(@)]
        /\ run' = [run EXCEPT ![p].pc = "done"]
        /\ env' = Traced(run[p].job, <<"7_organicSearch_Jobs", SegmentSeededRow(orgRows[run[p].job])>>)
        /\ UNCHANGED <<jobs, demoRows>>
     \/ SegmentThrows(p)

\* a variant of the manual endpoint that knows the demographics stage only
RunSegmentEntryDemographicsOnly(stage) ==
  CASE stage = "demographics" -> "g_load"
    [] OTHER -> "done"

\* app.post('/run-segment'): switch (stage); default: res.status(400)
RunSegmentEntry(stage) ==
  CASE stage = "demographics" -> "g_load"
    [] stage = "7_organicSearch" -> "q_load"
    [] OTHER -> "done"

\* app.post('/'): switch (stage); default: log 'nothing to do yet'
PushEntry(stage) ==
  CASE stage = "demographics" -> "g_load"
    [] stage = "7_organicSearch" -> "q_load"
    [] OTHER -> "done"

SegmentStarted(p, via, j, stage, pc) ==
  /\ Free(p)
  /\ env.deliveries < MaxDeliveries
  /\ run' = [run EXCEPT ![p] = Started(p, via, j, pc)]
  /\ env' = [env EXCEPT !.deliveries = @ + 1, !.runs[j] = Append(@, <<stage, via>>)]
  /\ UNCHANGED <<jobs, demoRows, orgRows>>

\* the Message Channel pushes {jobId, stage}
PushDeliver(p) ==
  \E j \in JobIds, stage \in SegmentStages :
    SegmentStarted(p, "channel", j, stage, PushEntry(stage))

\* an operator posts {jobId, stage} to /run-segment
RunSegment(p) ==
  \E j \in JobIds, stage \in SegmentStages :
    SegmentStarted(p, "manual", j, stage, RunSegmentEntry(stage))

\* the endpoint answers: 204 on the push endpoint, 200 or 400 on /run-segment
SegmentReturn(p) ==
  /\ run[p].pc = "done"
  /\ run' = [run EXCEPT ![p] = IdleRun]
  /\ UNCHANGED <<jobs, demoRows, orgRows, env>>

\* catch (err) of either endpoint: res.status(500)
SegmentError(p) ==
  /\ run[p].pc = "caught"
  /\ run' = [run EXCEPT ![p] = IdleRun]
  /\ UNCHANGED <<jobs, demoRows, orgRows, env>>

\* one statement of an invocation in flight
SegmentStep(p) ==
  \/ SegmentDemoLoad(p)
  \/ SegmentDemoPending(p)
  \/ SegmentDemoLookup(p)
  \/ SegmentDemoFailed(p)
  \/ SegmentDemoMerge(p)
  \/ SegmentDemoCompleted(p)
  \/ SegmentRecomputeMainStatus(p)
  \/ SegmentOrgLoad(p)
  \/ SegmentOrgPending(p)
  \/ SegmentOrgPost(p)
  \/ SegmentOrgSeed(p)
  \/ RecomputeRead(p)
  \/ RecomputeWrite(p)
  \/ SegmentReturn(p)
  \/ SegmentError(p)

\* two jobs submitted with the same content
InitSegment ==
  /\ \E l \in Locations, s0 \in {NULL, "queued"} : jobs = [j \in JobIds |-> NewJob(l, s0)]
  /\ demoRows = [j \in JobIds |-> NoRow]
  /\ orgRows = [j \in JobIds |-> NoRow]
  /\ run = [p \in Procs |-> IdleRun]
  /\ env = [Env0 EXCEPT !.tracing = TRUE]

NextSegment ==
  \/ \E p \in Procs : PushDeliver(p)
  \/ \E p \in Procs : RunSegment(p)
  \/ \E p \in Procs : SegmentStep(p)

SpecSegment == InitSegment /\ [][NextSegment]_vars

\* an invocation in flight is not suspended for ever: the event loop resumes it
\* when the statement it awaits settles
SpecSegmentFair == SpecSegment /\ WF_vars(\E p \in Procs : SegmentStep(p))

\* the stages run for a job, in order
StagesRun(j) == [i \in 1..Len(env.runs[j]) |-> env.runs[j][i][1]]

\* C17: from the same starting state and with no faults, a manual re-run of
\* (jobId, stage) issues the same sequence of store writes and leaves the same
\* final state as a channel-delivered message for that stage: two jobs of the
\* same content that had the same stages run, whether through the push endpoint
\* or through /run-segment, have the same write log, the same job row and the
\* same result rows.
C17_ManualRunEqualsDelivery ==
  (Quiescent /\ env.faults = 0 /\ StagesRun("j1") = StagesRun("j2"))
    => /\ env.log["j1"] = env.log["j2"]
       /\ jobs["j1"] = jobs["j2"]
       /\ demoRows["j1"] = demoRows["j2"]
       /\ orgRows["j1"] = orgRows["j2"]

\* one job had the organic stage delivered by the channel, the other had it re-run
\* by hand, both wrote to the stores and both have returned
C17_Witness ==
  /\ Quiescent
  /\ env.faults = 0
  /\ env.runs["j1"] = << <<"7_organicSearch", "channel">> >>
  /\ env.runs["j2"] = << <<"7_organicSearch", "manual">> >>
  /\ Len(env.log["j1"]) >= 3
  /\ orgRows["j2"].exists

\* the last run for the job is about to load it, finds the segment pending with
\* no other invocation in flight, and no statement will reject any more
RerunFindsPending(p, j, pc, col) ==
  /\ run[p].pc = pc
  /\ run[p].job = j
  /\ jobs[j][col] = "pending"
  /\ env.faults = MaxFaults
  /\ \A q \in Procs \ {p} : Idle(q)

\* C18: when a run has aborted after writing `pending`, a later redelivery or
\* manual re-run of the same stage, absent further faults, leads to the segment
\* leaving `pending` for a terminal status.
C18_RerunLeavesPending ==
  \A j \in JobIds, p \in Procs :
    /\ RerunFindsPending(p, j, "g_load", "demo") ~> (jobs[j].demo # "pending")
    /\ RerunFindsPending(p, j, "q_load", "org") ~> (jobs[j].org # "pending")

\* C19: when the trigger call of a Phase A run fails or times out, the run ends
\* with the segment status written `failed` and the overall status `failed`.
C19_TriggerFailureMarksFailed ==
  \A p \in Procs :
    (run[p].posted = "failed" /\ run[p].pc \in {"done", "caught"} /\ env.deliveries = 1)
      => /\ jobs[run[p].job].org = "failed"
         /\ jobs[run[p].job].status = "failed"

\* C24: when the idempotency guard finds the segment already terminal, the
\* processor skips the pending write, the lookup and the upsert but still invokes
\* the Aggregator: the step that evaluates the guard on a terminal status enters
\* the Aggregator.
C24_GuardStillAggregates ==
  [][\A p \in Procs :
       \/ /\ run[p].pc = "g_load"
          /\ jobs[run[p].job].exists
          /\ jobs[run[p].job].demo \in Terminal
          /\ run'[p] # run[p]
       \/ /\ run[p].pc = "q_load"
          /\ jobs[run[p].job].exists
          /\ jobs[run[p].job].org \in Terminal
          /\ run'[p] # run[p]
       => run'[p].pc = "st_read"]_vars

-----------------------------------------------------------------------------
(* organicSearch.js (unnamed/part_006) with status.js: the trigger, the    *)
(* callback, and the deletion of a job by index.js                         *)

\* handleOrganicSearchSegment: loadJob, if (!jobRow) return, "only run this if the
\* segment is queued or null"
SearchLoad(p) ==
  /\ run[p].pc = "h_load"
  /\ LET job == jobs[run[p].job] IN
       run' = [run EXCEPT ![p].pc = IF ~job.exists THEN "done"
                                     ELSE IF job.org # NULL /\ job.org # "queued" THEN "done"
                                     ELSE "h_pending",
                          ![p].snap = Loaded(job)]
  /\ UNCHANGED <<jobs, demoRows, orgRows, env>>

\* Mark segment as pending on main job
SearchPending(p) ==
  /\ run[p].pc = "h_pending"
  /\ SegmentMark(p, "org", "pending", "h_post")

\* await axios.post(N8N_WEBHOOK_URL, payload, {timeout: 30000}), in no try block
SearchPost(p) ==
  /\ run[p].pc = "h_post"
  /\ \/ /\ run' = [run EXCEPT ![p].pc = "h_seed", ![p].posted = "accepted"]
        /\ UNCHANGED <<jobs, demoRows, orgRows, env>>
     \/ /\ env.faults < MaxFaults
        /\ run' = [run EXCEPT ![p].pc = "caught", ![p].posted = "failed"]
        /\ env' = [env EXCEPT !.faults = @ + 1]
        /\ UNCHANGED <<jobs, demoRows, orgRows>>

\* MERGE ... WHEN NOT MATCHED THEN INSERT (jobId, businessName, date, status): a
\* row that is there is left as it is
SearchSeededRow(old) ==
  IF old.exists THEN old ELSE [exists |-> TRUE, status |-> "pending", ranks |-> NULL]

\* Upsert initial row in 7_organicSearch_Jobs with status='pending'
SearchSeed(p) ==
  /\ run[p].pc = "h_seed"
  /\ \/ /\ orgRows' = [orgRows EXCEPT ![run[p].job] = SearchSeededRow(@)]
        /\ run' = [run EXCEPT ![p].pc = "done"]
        /\ UNCHANGED <<jobs, demoRows, env>>
     \/ SegmentThrows(p)

\* hasNull ? 'failed' : 'completed', hasNull when any of the twenty rank fields
\* is null, undefined or ''
ResultStatus(ranks) == IF ranks = "all" THEN "completed" ELSE "failed"

\* UPDATE 7_organicSearch_Jobs SET rank..., status = @status WHERE jobId = @jobId:
\* the row of that jobId, if there is one, whether or not the job exists
ResultUpdatedRow(j, old, item) ==
  IF old.exists
    THEN [exists |-> TRUE, status |-> ResultStatus(item.ranks), ranks |-> item.ranks]
    ELSE old

\* the UPDATE in its try block; catch: mark segment failed on error
ResultUpdate(p) ==
  /\ run[p].pc = "r_update"
  /\ \/ /\ orgRows' = [orgRows EXCEPT
                         ![run[p].job] = ResultUpdatedRow(run[p].job, @, Head(run[p].items))]
        /\ run' = [run EXCEPT ![p].pc = "r_mark"]
        /\ UNCHANGED <<jobs, demoRows, env>>
     \/ /\ env.faults < MaxFaults
        /\ run' = [run EXCEPT ![p].pc = "r_failed"]
        /\ env' = [env EXCEPT !.faults = @ + 1]
        /\ UNCHANGED <<jobs, demoRows, orgRows>>

\* catch: await markSegmentStatus(jobId, '7_organicSearch_Status', 'failed'); return
ResultFailed(p) ==
  /\ run[p].pc = "r_failed"
  /\ SegmentMark(p, "org", "failed", "done")

\* Now set segment status on main jobs table
ResultMark(p) ==
  /\ run[p].pc = "r_mark"
  /\ SegmentMark(p, "org", ResultStatus(Head(run[p].items).ranks), "done")

\* the Message Channel delivers {jobId, stage: '7_organicSearch'}
SearchDeliver(p) ==
  /\ Free(p)
  /\ env.deliveries < MaxDeliveries
  /\ \E j \in JobIds : run' = [run EXCEPT ![p] = Started(p, "org", j, "h_load")]
  /\ env' = [env EXCEPT !.deliveries = @ + 1]
  /\ UNCHANGED <<jobs, demoRows, orgRows>>

\* the automation tool posts an array; handleOrganicResultCallback reads body[0]
\* and returns when it carries no jobId
ResultDeliver(p) ==
  /\ Free(p)
  /\ env.deliveries < MaxDeliveries
  /\ \E item \in Items :
       run' = [run EXCEPT ![p] =
                 IF item.jobId = NULL
                   THEN [Started(p, "cb", "j1", "done") EXCEPT !.items = <<item>>]
                   ELSE [Started(p, "cb", item.jobId, "r_update") EXCEPT !.items = <<item>>]]
  /\ env' = [env EXCEPT !.deliveries = @ + 1]
  /\ UNCHANGED <<jobs, demoRows, orgRows>>

\* index.js, DELETE /jobs/:jobId: DELETE FROM client_audits_jobs WHERE jobId = @jobId
DeleteJob ==
  /\ env.changes < MaxSegChanges
  /\ \E j \in JobIds :
       /\ jobs[j].exists
       /\ jobs' = [jobs EXCEPT ![j] = NoRow]
  /\ env' = [env EXCEPT !.changes = @ + 1]
  /\ UNCHANGED <<demoRows, orgRows, run>>

NextResult ==
  \/ \E p \in Procs : SearchDeliver(p)
  \/ \E p \in Procs : ResultDeliver(p)
  \/ DeleteJob
  \/ \E p \in Procs : SearchLoad(p)
  \/ \E p \in Procs : SearchPending(p)
  \/ \E p \in Procs : SearchPost(p)
  \/ \E p \in Procs : SearchSeed(p)
  \/ \E p \in Procs : ResultUpdate(p)
  \/ \E p \in Procs : ResultFailed(p)
  \/ \E p \in Procs : ResultMark(p)
  \/ \E p \in Procs : RecomputeRead(p)
  \/ \E p \in Procs : RecomputeWrite(p)
  \/ \E p \in Procs : SegmentReturn(p)
  \/ \E p \in Procs : SegmentError(p)

SpecResult == Init /\ [][NextResult]_vars

\* C21: a callback whose jobId matches no Job creates or changes no SegmentResult
\* row, changes no Job, and its handler does not raise: every step of a callback
\* invocation taken while no Job has its jobId leaves the three stores as they are
\* and does not end in the catch of the endpoint.
C21_OrphanCallbackWritesNothing ==
  [][\A p \in Procs :
       ( /\ run[p].kind = "cb"
         /\ run'[p] # run[p]
         /\ ~jobs[run[p].job].exists )
       => /\ UNCHANGED <<jobs, demoRows, orgRows>>
          /\ run'[p].pc # "caught"]_vars

\* C33: under SpecStage, when a run whose upsert failed ends and no other run is in
\* progress, the demographics result row of the job, if there is one, has the
\* status the job has for the segment.
C33_RowStatusMirrorsSegment ==
  [][\A p \in Procs :
       ( /\ run[p].pc = "p_merge_failed"
         /\ run'[p].pc = "done"
         /\ \A q \in Procs \ {p} : Idle(q)
         /\ demoRows'[run[p].job].exists )
       => demoRows'[run[p].job].status = jobs'[run[p].job].demo]_vars

-----------------------------------------------------------------------------
(* SpecCoerce: step 4 of processDemographicsStage on reference rows whose   *)
(* columns hold arbitrary values                                           *)

\* the values a reference column may hold
Inputs ==
  {JsNull, JsUndefined, JsNaN, JsNumber(0), JsNumber(4)}
    \cup {JsString(chars) : chars \in UNION {[1..n -> Alphabet] : n \in 0..MaxChars}}

\* the reference rows: two columns hold any value, the others a number
ReferenceRows ==
  {[exists |-> TRUE,
    fields |-> [f \in DemoFields |-> IF f = "population_no" THEN a
                                     ELSE IF f = "median_age" THEN b ELSE JsNumber(4)]] :
     a \in Inputs, b \in Inputs}

\* const demo = demoRows[0], for one message at a time
CoerceLookup(p) ==
  /\ \A q \in Procs : Idle(q)
  /\ Free(p)
  /\ env.deliveries < MaxDeliveries
  /\ \E d \in ReferenceRows :
       run' = [run EXCEPT ![p] = [Started(p, "coerce", "j1", "n_merge") EXCEPT !.ref = d]]
  /\ env' = [env EXCEPT !.deliveries = @ + 1]
  /\ UNCHANGED <<jobs, demoRows, orgRows>>

\* const parsed = {...}; allNull, allNonNull, newDemoStatus; the MERGE of parsed
CoerceMerge(p) ==
  /\ run[p].pc = "n_merge"
  /\ LET parsed == [f \in DemoFields |-> WorkerToNumberOrNull(run[p].ref.fields[f])]
         newDemoStatus == IF \A f \in DemoFields : parsed[f] = JsNull THEN "failed"
                          ELSE IF \A f \in DemoFields : parsed[f] # JsNull THEN "completed"
                          ELSE "partial"
     IN demoRows' = [demoRows EXCEPT ![run[p].job] =
                       [exists |-> TRUE, status |-> newDemoStatus, fields |-> parsed]]
  /\ run' = [run EXCEPT ![p].pc = "done"]
  /\ UNCHANGED <<jobs, orgRows, env>>

NextCoerce ==
  \/ \E p \in Procs : CoerceLookup(p)
  \/ \E p \in Procs : CoerceMerge(p)
  \/ \E p \in Procs : HandlerReturn(p)

SpecCoerce == InitStage /\ [][NextCoerce]_vars

\* a reference value that is a real number: a number, or a string that has a digit
\* and, beside digits, nothing but spaces, commas and plus signs
RealNumber(value) ==
  \/ value.type = "number"
  \/ /\ value.type = "string"
     /\ \E i \in 1..Len(value.chars) : value.chars[i] \in DecimalDigits
     /\ \A i \in 1..Len(value.chars) : value.chars[i] \in DecimalDigits \cup {" ", ",", "+"}

\* C34: an absent, null, empty-string or non-numeric reference value is stored as
\* null and never as zero, and a row is classified 'completed' only when every
\* reference value was a real number.
C34_NonNumericBecomesNull ==
  \A p \in Procs :
    (run[p].kind = "coerce" /\ run[p].pc = "done")
    => /\ \A f \in DemoFields :
            ~RealNumber(run[p].ref.fields[f]) => demoRows[run[p].job].fields[f] = JsNull
       /\ demoRows[run[p].job].status = "completed"
            => \A f \in DemoFields : RealNumber(run[p].ref.fields[f])

-----------------------------------------------------------------------------
(* SpecPhases: the two phases of the organic-search segment in the status.js *)
(* generation: handleOrganicSearchSegment and handleOrganicResultCallback   *)

\* the bodies the automation tool posts to /organic-result: an array of result records
Bodies == UNION {[1..n -> Items] : n \in 1..MaxItems}

\* 'completed' AS status, with every rank column from the record (rankN || null)
CallbackMergedRow(item) == [exists |-> TRUE, status |-> "completed", ranks |-> item.ranks]

\* what a callback found: whether the trigger call of its job had been accepted
Triggered(j) ==
  [exists |-> \E q \in Procs : run[q].job = j /\ run[q].posted = "accepted"]

\* POST /organic-result: const item = Array.isArray(body) ? body[0] : body || {};
\* if (!jobId) return
CallbackDeliver(p) ==
  /\ Free(p)
  /\ env.deliveries < MaxDeliveries
  /\ \E body \in Bodies :
       run' = [run EXCEPT ![p] =
                 IF body[1].jobId = NULL
                   THEN [Started(p, "cb", "j1", "done") EXCEPT !.items = body]
                   ELSE [Started(p, "cb", body[1].jobId, "k_load")
                           EXCEPT !.items = body, !.at = Triggered(body[1].jobId)]]
  /\ env' = [env EXCEPT !.deliveries = @ + 1]
  /\ UNCHANGED <<jobs, demoRows, orgRows>>

\* const job = await loadJob(jobId)
CallbackLoad(p) ==
  /\ run[p].pc = "k_load"
  /\ run' = [run EXCEPT ![p].pc = IF jobs[run[p].job].exists THEN "k_merge" ELSE "k_orphan",
                        ![p].snap = Loaded(jobs[run[p].job])]
  /\ UNCHANGED <<jobs, demoRows, orgRows, env>>

\* if (!job): markSegmentStatus(failed), then recomputeMainStatus
CallbackOrphan(p) ==
  /\ run[p].pc = "k_orphan"
  /\ SegmentMark(p, "org", "failed", "k_recompute")

\* the MERGE of the result record: succeeds, or throws into the catch
CallbackMerge(p) ==
  /\ run[p].pc = "k_merge"
  /\ \/ /\ orgRows' = [orgRows EXCEPT ![run[p].job] = CallbackMergedRow(run[p].items[1])]
        /\ run' = [run EXCEPT ![p].pc = "k_completed"]
        /\ UNCHANGED <<jobs, demoRows, env>>
     \/ /\ env.faults < MaxFaults
        /\ run' = [run EXCEPT ![p].pc = "k_failed"]
        /\ env' = [env EXCEPT !.faults = @ + 1]
        /\ UNCHANGED <<jobs, demoRows, orgRows>>

\* markSegmentStatus(completed); the recomputeMainStatus that follows inside the try
\* is a call of an undefined import, so control passes to the catch
CallbackCompleted(p) ==
  /\ run[p].pc = "k_completed"
  /\ SegmentMark(p, "org", "completed", "k_failed")

\* catch (err): markSegmentStatus(failed), then recomputeMainStatus
CallbackFailed(p) ==
  /\ run[p].pc = "k_failed"
  /\ SegmentMark(p, "org", "failed", "k_recompute")

\* await recomputeMainStatus(jobId) outside any try: the TypeError reaches the route
CallbackRecomputeMainStatus(p) ==
  /\ run[p].pc = "k_recompute"
  /\ run' = [run EXCEPT ![p].pc = "caught"]
  /\ UNCHANGED <<jobs, demoRows, orgRows, env>>

\* the Message Channel pushes {jobId, stage: '7_organicSearch'}
PhaseDeliver(p) ==
  \E j \in JobIds : SegmentStarted(p, "channel", j, "7_organicSearch", PushEntry("7_organicSearch"))

NextPhases ==
  \/ \E p \in Procs : PhaseDeliver(p)
  \/ \E p \in Procs : CallbackDeliver(p)
  \/ \E p \in Procs : SegmentOrgLoad(p)
  \/ \E p \in Procs : SegmentOrgPending(p)
  \/ \E p \in Procs : SegmentOrgPost(p)
  \/ \E p \in Procs : SegmentOrgSeed(p)
  \/ \E p \in Procs : CallbackLoad(p)
  \/ \E p \in Procs : CallbackOrphan(p)
  \/ \E p \in Procs : CallbackMerge(p)
  \/ \E p \in Procs : CallbackCompleted(p)
  \/ \E p \in Procs : CallbackFailed(p)
  \/ \E p \in Procs : CallbackRecomputeMainStatus(p)
  \/ \E p \in Procs : RecomputeRead(p)
  \/ \E p \in Procs : RecomputeWrite(p)
  \/ \E p \in Procs : SegmentReturn(p)
  \/ \E p \in Procs : SegmentError(p)

SpecPhases == Init /\ [][NextPhases]_vars

\* C31: every record of a callback payload that carries the jobId of an existing Job
\* is applied: once a callback has been processed alone and without a store fault,
\* each such record's job has its result row and a terminal organic-search status.
C31_EveryRecordIsApplied ==
  \A p \in Procs :
    ( /\ run[p].kind = "cb"
      /\ run[p].pc \in {"done", "caught"}
      /\ env.deliveries = 1
      /\ env.faults = 0 )
    => \A i \in DOMAIN run[p].items :
         LET j == run[p].items[i].jobId IN
           (j # NULL /\ jobs[j].exists) => orgRows[j].exists /\ jobs[j].org \in Terminal

\* the trigger call was accepted, the callback it asked for has been processed, and
\* the trigger is about to write its placeholder row
PlaceholderAfterCallback(p) ==
  /\ run[p].pc = "q_seed"
  /\ orgRows[run[p].job].exists
  /\ orgRows[run[p].job].status = "completed"
  /\ \E q \in Procs :
       /\ run[q].kind = "cb"
       /\ run[q].job = run[p].job
       /\ run[q].at.exists
       /\ run[q].pc \in {"done", "caught"}

\* C36: a placeholder upsert that comes after the callback of its job does not
\* overwrite the callback's result: the row and the organic-search status are after
\* the upsert what the callback left.
C36_PlaceholderKeepsCallbackResult ==
  [][\A p \in Procs :
       (PlaceholderAfterCallback(p) /\ run'[p].pc = "done")
       => /\ orgRows'[run[p].job] = orgRows[run[p].job]
          /\ jobs'[run[p].job].org = jobs[run[p].job].org]_vars

====
